---------------------------- MODULE Spec2Model ----------------------------
(***************************************************************************)
(* Model of the olmonopolet-api pipeline: the Beer / Stock / Tasted /      *)
(* UntappdCheckin / WrongMatch tables and the jobs and handlers that       *)
(* write them (catalog sync, deactivation sweep, Untappd matching,         *)
(* wrong-match correction, check-in import and resync).                    *)
(*                                                                         *)
(* Encoding of Python/Django values:                                       *)
(*   None in a numeric or datetime column  -> NULL  (-1)                   *)
(*   None in a text column                 -> NONE  ("None")               *)
(*   None in a URL column                  -> NoUrl (<<>>)                 *)
(*   a URL is the sequence of its "/"-separated parts, so that             *)
(*   url.split("/")[-1] is the last element of the sequence                *)
(*   a float quotient a / b is kept exact as the reduced pair <<a, b>>,     *)
(*   None in such a column is NoQuot (<<>>)                                *)
(*   a name that is split into words is the sequence of its words          *)
(***************************************************************************)
EXTENDS Integers, Sequences, FiniteSets, TLC

VARIABLES
    now,        \* timezone.now(), in days
    beers,      \* Beer table: vmp_id -> row
    stocks,     \* Stock table: <<store, vmp_id>> -> row
    tasted,     \* Tasted table: set of rows, unique on (user, beer)
    checkins,   \* UntappdCheckin table: set of rows with an auto id
    wrongs,     \* WrongMatch table: set of rows with an auto id
    option,     \* Option row "auto_accept_wrong_match": "absent", "on", "off"
    stores,     \* Store table: store_id -> row
    unreleased, \* VmpNotReleased table: the set of ids
    last,       \* the operation that ran last: name, arguments, results
    pre         \* the tables as they were before that operation

vars == <<now, beers, stocks, tasted, checkins, wrongs, option, stores,
          unreleased, last, pre>>

-----------------------------------------------------------------------------
(* Bounds of the model *)

MaxTime == 35
MaxWrongIds == 2
MaxCheckinRows == 3
MaxFileLen == 2

(* Values *)

NULL == -1
NONE == "None"
NoUrl == <<>>

TickSteps == {7}
DaysArgs == {5, 30}
VmpIds == {1, 2}
Stores == {1}
Users == {"u1", "u2"}

Snapshot == [beers |-> beers, stocks |-> stocks, tasted |-> tasted,
             checkins |-> checkins, wrongs |-> wrongs]

-----------------------------------------------------------------------------
(* Python helpers *)

\* str.split("/")[-1] of a URL
LastSegment(url) == url[Len(url)]

\* int(s) for the strings that occur; any other string raises ValueError
IntOf == [s \in {"101", "102"} |-> IF s = "101" THEN 101 ELSE 102]

IsNumeric(s) == s \in DOMAIN IntOf

\* Python's `int_or_None != str`: values of different types never compare
\* equal, so the test is true whatever the two values are.
PyIdDiffersFromSegment(untpd_id, segment) == TRUE

RECURSIVE Gcd(_, _)
Gcd(a, b) == IF b = 0 THEN a ELSE Gcd(b, a % b)

\* the float a / b, exact; b # 0
Quot(a, b) == <<a \div Gcd(a, b), b \div Gcd(a, b)>>

NoQuot == <<>>

-----------------------------------------------------------------------------
(* Beer rows (beers/models.py) *)

SourceBFields == {"untpd_id", "untpd_name", "untpd_url", "verified_match",
                  "prioritize_recheck", "brewery", "rating", "checkins",
                  "style", "description", "abv", "ibu", "label_hd_url",
                  "label_sm_url", "alcohol_units", "untpd_updated"}

\* A Beer instance with the field defaults of the model
BeerDefaults ==
    [vmp_name |-> <<>>, main_category |-> NONE, sub_category |-> NONE,
     country |-> NONE, price |-> NULL, volume |-> NoQuot,
     price_per_volume |-> NoQuot, product_selection |-> "Tilleggsutvalget",
     vmp_url |-> NONE, post_delivery |-> NONE, store_delivery |-> NONE,
     untpd_id |-> NULL, untpd_name |-> NONE, untpd_url |-> NoUrl,
     verified_match |-> FALSE, match_manually |-> FALSE,
     prioritize_recheck |-> FALSE, brewery |-> NONE, rating |-> NULL,
     checkins |-> NULL, style |-> NONE, description |-> NONE, abv |-> NULL,
     ibu |-> NULL, label_hd_url |-> NONE, label_sm_url |-> NONE,
     alcohol_units |-> NoQuot, untpd_updated |-> NULL,
     vmp_updated |-> NULL, vmp_details_fetched |-> NULL,
     color |-> NONE, sugar |-> NoQuot,
     created_at |-> NULL, active |-> TRUE]

BeerFields == DOMAIN BeerDefaults

\* DirtyFieldsMixin.get_dirty_fields(): the fields of the instance that
\* differ from the row it was loaded from
DirtyFields(orig, self) == {f \in BeerFields : self[f] # orig[f]}

\* The assignments of the match_manually branch of Beer.save
ResetSourceB_NoDescription(self) ==
    [self EXCEPT !.untpd_id = NULL, !.untpd_name = NONE, !.untpd_url = NoUrl,
                 !.verified_match = FALSE, !.prioritize_recheck = FALSE,
                 !.brewery = NONE, !.rating = NULL, !.checkins = NULL,
                 !.style = NONE, !.abv = NULL, !.ibu = NULL,
                 !.label_hd_url = NONE, !.label_sm_url = NONE,
                 !.alcohol_units = NoQuot, !.untpd_updated = NULL]

ResetSourceB(self) ==
    [self EXCEPT !.untpd_id = NULL, !.untpd_name = NONE, !.untpd_url = NoUrl,
                 !.verified_match = FALSE, !.prioritize_recheck = FALSE,
                 !.brewery = NONE, !.rating = NULL, !.checkins = NULL,
                 !.style = NONE, !.description = NONE, !.abv = NULL,
                 !.ibu = NULL, !.label_hd_url = NONE, !.label_sm_url = NONE,
                 !.alcohol_units = NoQuot, !.untpd_updated = NULL]

\* The condition of the untpd_url branch of Beer.save
UrlBranchApplies(dirty, self) ==
    /\ "untpd_url" \in dirty
    /\ Cardinality(dirty) = 1
    /\ self.untpd_url # NoUrl
    /\ PyIdDiffersFromSegment(self.untpd_id, LastSegment(self.untpd_url))

\* The condition of the match_manually branch of Beer.save
ManualBranchApplies_AnyDirty(dirty, self) ==
    /\ "match_manually" \in dirty
    /\ self.match_manually

ManualBranchApplies(dirty, self) ==
    /\ "match_manually" \in dirty
    /\ Cardinality(dirty) = 1
    /\ self.match_manually

\* Beer.save() of an instance `self` loaded from row `orig`.
\*   row    : the row in storage when save returns
\*   raised : save raised (storage keeps orig)
\*   nested : how often save re-entered itself
\* In the untpd_url branch untpd_id becomes the segment string; the nested
\* save writes it through IntegerField, i.e. int(segment), which raises
\* ValueError for a non-numeric segment: the nested failure is printed, and
\* the outer super().save() raises the same error to the caller.
\* In the match_manually branch the nested save sees the fields it has just
\* cleared as dirty; when nothing was cleared the dirty set is unchanged and
\* the branch applies again, until RecursionError is caught and the frames
\* unwind, each writing the same row.
SaveBeer(orig, self) ==
    LET dirty == DirtyFields(orig, self) IN
    IF UrlBranchApplies(dirty, self)
    THEN LET seg == LastSegment(self.untpd_url) IN
         IF IsNumeric(seg)
         THEN [row |-> [self EXCEPT !.untpd_id = IntOf[seg],
                                    !.prioritize_recheck = TRUE,
                                    !.verified_match = TRUE,
                                    !.match_manually = FALSE],
               raised |-> FALSE, nested |-> "once"]
         ELSE [row |-> orig, raised |-> TRUE, nested |-> "once"]
    ELSE IF ManualBranchApplies(dirty, self)
    THEN [row |-> ResetSourceB(self), raised |-> FALSE,
          nested |-> IF ResetSourceB(self) = self THEN "unbounded" ELSE "once"]
    ELSE [row |-> self, raised |-> FALSE, nested |-> "none"]

-----------------------------------------------------------------------------
(* Store rows *)

\* store_updated and store_stock_updated are both DateTimeField(auto_now=
\* True): every Store.save() and Store.objects.create() sets both to
\* timezone.now().  The code reads them only through
\* order_by("store_stock_updated"), so a timestamp of the Store table is
\* kept as its rank among the timestamps the table holds.
StoreRow(t) == [store_updated |-> t, store_stock_updated |-> t]

StoreStamps(table) ==
    {table[s].store_updated : s \in DOMAIN table}
        \cup {table[s].store_stock_updated : s \in DOMAIN table}

RankOf(table, t) == Cardinality({u \in StoreStamps(table) : u < t})

RankStamps(table) ==
    [s \in DOMAIN table |->
        [store_updated |-> RankOf(table, table[s].store_updated),
         store_stock_updated |->
             RankOf(table, table[s].store_stock_updated)]]

\* timezone.now() of a write: later than every stored timestamp
LaterThanAll(table) == Cardinality(StoreStamps(table))

\* Store.save() / Store.objects.create() of the Store s
SaveStore(table, s) ==
    RankStamps([x \in DOMAIN table \cup {s} |->
        IF x = s THEN StoreRow(LaterThanAll(table)) ELSE table[x]])

\* Store.objects.all().order_by("store_stock_updated")[:1] returns s
OldestStore(table, s) ==
    /\ s \in DOMAIN table
    /\ \A o \in DOMAIN table :
          table[s].store_stock_updated <= table[o].store_stock_updated

\* the Store table holding one store
OneStore == SaveStore(<<>>, 1)

-----------------------------------------------------------------------------
(* Stock rows *)

StockRow(q, s, u) == [quantity |-> q, stocked_at |-> s, unstocked_at |-> u]

-----------------------------------------------------------------------------
(* deactivate_inactive *)

\* Command._get_inactive_beers: the queryset, evaluated against `table`.
\* A NULL vmp_updated does not satisfy __lte.
GetInactiveBeers_NoDateFilter(table, time_threshold) ==
    {b \in DOMAIN table : table[b].active}

GetInactiveBeers(table, time_threshold) ==
    {b \in DOMAIN table :
        /\ table[b].vmp_updated # NULL
        /\ table[b].vmp_updated <= time_threshold
        /\ table[b].active}

\* Command._deactivate_beers: beers.update(active=False)
DeactivateBeers(table, time_threshold) ==
    [b \in DOMAIN table |->
        IF b \in GetInactiveBeers(table, time_threshold)
        THEN [table[b] EXCEPT !.active = FALSE]
        ELSE table[b]]

\* Command._unstock_beers: Stock.objects.filter(beer__in=beers).update(...).
\* `beers` is the unevaluated queryset of _get_inactive_beers; it becomes a
\* subquery of the UPDATE and so is evaluated against `table`, the Beer
\* table at the time of this statement.
UnstockBeers(stocktable, table, time_threshold, t) ==
    [k \in DOMAIN stocktable |->
        IF k[2] \in GetInactiveBeers(table, time_threshold)
        THEN [stocktable[k] EXCEPT !.quantity = 0, !.unstocked_at = t]
        ELSE stocktable[k]]

\* Command.handle
DeactivateInactive(days) ==
    LET time_threshold == now - days
        deactivated == DeactivateBeers(beers, time_threshold)
    IN  /\ beers' = deactivated
        /\ stocks' = UnstockBeers(stocks, deactivated, time_threshold, now)
        /\ last' = [op |-> "deactivate_inactive", days |-> days,
                    time_threshold |-> time_threshold, at |-> now]
        /\ pre' = Snapshot
        /\ UNCHANGED <<now, tasted, checkins, wrongs, option, stores,
                     unreleased>>

\* the clock advances between operations
Tick ==
    /\ \E d \in TickSteps : now + d <= MaxTime /\ now' = now + d
    /\ UNCHANGED <<beers, stocks, tasted, checkins, wrongs, option, stores,
                 last, pre, unreleased>>

-----------------------------------------------------------------------------
(* update_beers_from_vmp: the catalog sync *)

\* parse_bool (api/utils.py) on the strings the source sends; NONE stands
\* for the ValueError of any other string
ParseBool(val) ==
    IF val \in {"true", "t", "1", "yes", "y", "on"} THEN "True"
    ELSE IF val \in {"false", "f", "0", "no", "n", "off", ""} THEN "False"
    ELSE NONE

\* int(beer_data["code"])
VmpIdOf == [s \in {"1", "2"} |-> IF s = "1" THEN 1 ELSE 2]

\* One product record of the source
Product(code, name, sub, country, price, volume) ==
    [code |-> code, name |-> name, main_category |-> "Øl",
     main_sub_category |-> sub, main_country |-> country,
     price |-> price, volume |-> volume,
     product_selection |-> "Basisutvalget", url |-> "/p/x",
     availableForPurchase |-> "true",
     readableValue |-> "Kan bestilles til alle butikker"]

\* Does building the instance for this record raise before anything is
\* written?  int(code); assigning a country name (a str) to the ForeignKey
\* Beer.country raises ValueError unless the name is None; price / 0.0
\* raises ZeroDivisionError; parse_bool raises on an unknown string.
RecordRaises(p) ==
    \/ p.code \notin DOMAIN VmpIdOf
    \/ p.main_country # NONE
    \/ p.volume = 0
    \/ ParseBool(p.availableForPurchase) = NONE

\* Command._calculate_price_per_volume: price / (volume_value / 100.0)
CalculatePricePerVolume(price, volume_value) ==
    Quot(price * 100, volume_value)

StoreDelivery(p) ==
    IF p.readableValue = "Kan bestilles til alle butikker"
    THEN "True" ELSE "False"

\* Command._update_existing_beer, for a record that does not raise
UpdateExistingBeer_WrongRatio(beer, p, t) ==
    LET self == [beer EXCEPT
            !.vmp_name = p.name,
            !.main_category = p.main_category,
            !.sub_category = IF p.main_sub_category # NONE
                             THEN p.main_sub_category ELSE @,
            !.country = p.main_country,
            !.price = p.price,
            !.volume = Quot(p.volume, 100),
            !.price_per_volume = Quot(p.price, p.volume),
            !.product_selection = p.product_selection,
            !.vmp_url = "https://www.vinmonopolet.no" \o p.url,
            !.post_delivery = ParseBool(p.availableForPurchase),
            !.store_delivery = StoreDelivery(p),
            !.vmp_updated = t,
            !.active = TRUE]
    IN SaveBeer(beer, self).row

UpdateExistingBeer_Recreates(beer, p, t) ==
    [BeerDefaults EXCEPT
        !.vmp_name = p.name,
        !.main_category = p.main_category,
        !.sub_category = IF p.main_sub_category # NONE
                         THEN p.main_sub_category ELSE beer.sub_category,
        !.country = p.main_country,
        !.price = p.price,
        !.volume = Quot(p.volume, 100),
        !.price_per_volume = CalculatePricePerVolume(p.price, p.volume),
        !.product_selection = p.product_selection,
        !.vmp_url = "https://www.vinmonopolet.no" \o p.url,
        !.post_delivery = ParseBool(p.availableForPurchase),
        !.store_delivery = StoreDelivery(p),
        !.vmp_updated = t,
        !.created_at = beer.created_at]

UpdateExistingBeer_KeepsInactive(beer, p, t) ==
    LET self == [beer EXCEPT
            !.vmp_name = p.name,
            !.main_category = p.main_category,
            !.sub_category = IF p.main_sub_category # NONE
                             THEN p.main_sub_category ELSE @,
            !.country = p.main_country,
            !.price = p.price,
            !.volume = Quot(p.volume, 100),
            !.price_per_volume = CalculatePricePerVolume(p.price, p.volume),
            !.product_selection = p.product_selection,
            !.vmp_url = "https://www.vinmonopolet.no" \o p.url,
            !.post_delivery = ParseBool(p.availableForPurchase),
            !.store_delivery = StoreDelivery(p),
            !.vmp_updated = t]
    IN SaveBeer(beer, self).row

UpdateExistingBeer(beer, p, t) ==
    LET self == [beer EXCEPT
            !.vmp_name = p.name,
            !.main_category = p.main_category,
            !.sub_category = IF p.main_sub_category # NONE
                             THEN p.main_sub_category ELSE @,
            !.country = p.main_country,
            !.price = p.price,
            !.volume = Quot(p.volume, 100),
            !.price_per_volume = CalculatePricePerVolume(p.price, p.volume),
            !.product_selection = p.product_selection,
            !.vmp_url = "https://www.vinmonopolet.no" \o p.url,
            !.post_delivery = ParseBool(p.availableForPurchase),
            !.store_delivery = StoreDelivery(p),
            !.vmp_updated = t,
            !.active = TRUE]
    IN SaveBeer(beer, self).row

\* Command._create_new_beer, for a record that does not raise:
\* Beer.objects.create(...) and the second save that sets sub_category
CreateNewBeer(p, t) ==
    LET created == [BeerDefaults EXCEPT
            !.vmp_name = p.name,
            !.main_category = p.main_category,
            !.country = p.main_country,
            !.price = p.price,
            !.volume = Quot(p.volume, 100),
            !.price_per_volume = CalculatePricePerVolume(p.price, p.volume),
            !.product_selection = p.product_selection,
            !.post_delivery = ParseBool(p.availableForPurchase),
            !.store_delivery = StoreDelivery(p),
            !.vmp_url = "https://www.vinmonopolet.no" \o p.url,
            !.vmp_updated = t,
            !.created_at = t]
    IN IF p.main_sub_category # NONE
       THEN SaveBeer(created,
                     [created EXCEPT !.sub_category = p.main_sub_category]).row
       ELSE created

\* the table with row r stored under key k
Put(table, k, r) ==
    [x \in DOMAIN table \cup {k} |-> IF x = k THEN r ELSE table[x]]

\* The loop over response["products"] of one page: the first record that
\* raises ends the page (except Exception: continue)
RECURSIVE ProcessProducts(_, _, _, _)
ProcessProducts(table, products, i, t) ==
    IF i > Len(products) THEN table
    ELSE LET p == products[i] IN
         IF RecordRaises(p) THEN table
         ELSE LET id == VmpIdOf[p.code]
                  row == IF id \in DOMAIN table
                         THEN UpdateExistingBeer(table[id], p, t)
                         ELSE CreateNewBeer(p, t)
              IN ProcessProducts(Put(table, id, row), products, i + 1, t)

\* The loop over the pages of one category; a page whose fetch fails is
\* skipped
RECURSIVE ProcessPages(_, _, _, _)
ProcessPages(table, pages, i, t) ==
    IF i > Len(pages) THEN table
    ELSE ProcessPages(
            IF pages[i].ok THEN ProcessProducts(table, pages[i].products, 1, t)
            ELSE table,
            pages, i + 1, t)

\* Command._process_product_category: the first call gives total_pages; if
\* it fails the category is skipped
ProcessProductCategory_FirstPageOnly(table, cat, t) ==
    IF cat.ok /\ cat.pages # <<>> /\ cat.pages[1].ok
    THEN ProcessProducts(table, cat.pages[1].products, 1, t)
    ELSE table

ProcessProductCategory(table, cat, t) ==
    IF cat.ok THEN ProcessPages(table, cat.pages, 1, t) ELSE table

\* The loop over the categories of Command.handle
RECURSIVE ProcessCategories(_, _, _, _)
ProcessCategories(table, cats, i, t) ==
    IF i > Len(cats) THEN table
    ELSE ProcessCategories(ProcessProductCategory(table, cats[i], t),
                           cats, i + 1, t)

Page(products) == [ok |-> TRUE, products |-> products]
FailedPage == [ok |-> FALSE, products |-> <<>>]
Category(pages) == [ok |-> TRUE, pages |-> pages]
FailedCategory == [ok |-> FALSE, pages |-> <<>>]

\* a name is the sequence of its words
BockName == <<"Lervig", "x", "Nogne", "Bock", "2020">>

pA == Product("1", <<"Ale">>, "Pale ale", NONE, 66, 33)
pA2 == Product("1", <<"Ale", "2">>, NONE, NONE, 70, 50)
pB == Product("2", BockName, NONE, NONE, 100, 50)
pBcountry == Product("2", BockName, NONE, "Norge", 100, 50)
pBzero == Product("2", BockName, NONE, NONE, 100, 0)

\* What the source answers during one run of the job (configured: the
\* ExternalAPI row "vinmonopolet" exists)
Sources ==
    <<[configured |-> FALSE, categories |-> <<>>],
      [configured |-> TRUE,
       categories |-> <<Category(<<Page(<<pA, pB>>)>>), Category(<<>>)>>],
      [configured |-> TRUE,
       categories |-> <<Category(<<Page(<<pA2>>)>>),
                        Category(<<Page(<<pB>>)>>)>>],
      [configured |-> TRUE,
       categories |-> <<Category(<<Page(<<pBcountry, pA>>)>>),
                        Category(<<Page(<<pB>>)>>)>>],
      [configured |-> TRUE,
       categories |-> <<FailedCategory,
                        Category(<<FailedPage, Page(<<pA>>)>>)>>],
      [configured |-> TRUE,
       categories |-> <<Category(<<Page(<<pA, pBzero>>)>>),
                        Category(<<>>)>>]>>

\* Command.handle of update_beers_from_vmp against source answer number n
UpdateBeersFromVmp(n) ==
    LET src == Sources[n] IN
    /\ beers' = IF src.configured
                THEN ProcessCategories(beers, src.categories, 1, now)
                ELSE beers
    /\ last' = [op |-> "update_beers_from_vmp", src |-> n, at |-> now,
                repeat |-> (last.op = "update_beers_from_vmp" /\ last.src = n)]
    /\ pre' = Snapshot
    /\ UNCHANGED <<now, stocks, tasted, checkins, wrongs, option, stores,
                     unreleased>>

-----------------------------------------------------------------------------
(* Catalog and deactivation: specification *)

NoOp == [op |-> "none"]

EmptyTable == <<>>

\* Stock rows as a stock refresh at time 0 leaves them: in stock, or seen
\* and sold out since
InitStockRows == {StockRow(5, 0, NULL), StockRow(0, 0, 0)}

\* The catalog after a first sync at time 0, or still empty
InitCatalogs ==
    {EmptyTable, ProcessCategories(EmptyTable, Sources[2].categories, 1, 0)}

InitCatalog ==
    /\ now = 0
    /\ beers \in InitCatalogs
    /\ \E K \in SUBSET (Stores \X DOMAIN beers) :
            stocks \in [K -> InitStockRows]
    /\ tasted = {}
    /\ checkins = {}
    /\ wrongs = {}
    /\ option = "absent"
    /\ stores = OneStore
    /\ unreleased = {}
    /\ last = NoOp
    /\ pre = Snapshot

NextCatalog ==
    \/ Tick
    \/ \E days \in DaysArgs : DeactivateInactive(days)
    \/ \E n \in DOMAIN Sources : UpdateBeersFromVmp(n)

SpecCatalog == InitCatalog /\ [][NextCatalog]_vars

\* test_new_beer_does_not_get_deactivated: "created less than 10 days ago"
NewBeerDays == 10

\* The Beers the sweep that ran last was to deactivate
SweptBeers ==
    {b \in DOMAIN pre.beers :
        /\ pre.beers[b].active
        /\ pre.beers[b].vmp_updated # NULL
        /\ pre.beers[b].vmp_updated <= last.time_threshold}

\* C1: after deactivate_inactive(T) every Beer that was active with
\* vmp_updated <= now - T is inactive, and each of its Stock rows has
\* quantity 0 and unstocked_at = the sweep time.
C1_SweepDeactivatesAndUnstocks ==
    last.op = "deactivate_inactive" =>
        \A b \in SweptBeers :
            /\ ~beers[b].active
            /\ \A k \in DOMAIN stocks :
                  k[2] = b => /\ stocks[k].quantity = 0
                              /\ stocks[k].unstocked_at = last.at

\* C2: the sweep does not deactivate a Beer created less than 10 days ago,
\* even when its vmp_updated is older than the threshold.
C2_NewBeerNotDeactivated ==
    last.op = "deactivate_inactive" =>
        \A b \in DOMAIN pre.beers :
            (/\ pre.beers[b].active
             /\ pre.beers[b].created_at > last.at - NewBeerDays)
            => beers[b].active

\* The Beers whose vmp_updated is newer than the threshold of the sweep
\* that ran last
NewerBeers ==
    {b \in DOMAIN pre.beers :
        /\ pre.beers[b].vmp_updated # NULL
        /\ pre.beers[b].vmp_updated > last.time_threshold}

\* C3: deactivate_inactive(T) leaves every Beer with vmp_updated newer than
\* now - T untouched: the Beer row is unchanged (it stays active) and so is
\* each of its Stock rows.
C3_NewerBeersUntouched ==
    last.op = "deactivate_inactive" =>
        \A b \in NewerBeers :
            /\ beers[b] = pre.beers[b]
            /\ \A k \in DOMAIN stocks : k[2] = b => stocks[k] = pre.stocks[k]

\* A sweep that deactivated one Beer and met a newer, active Beer that is
\* in stock
C3_Witness ==
    /\ last.op = "deactivate_inactive"
    /\ SweptBeers # {}
    /\ \E b \in NewerBeers :
          /\ pre.beers[b].active
          /\ \E k \in DOMAIN stocks : k[2] = b /\ pre.stocks[k].quantity > 0

\* the row without its vmp_updated stamp
WithoutStamp(row) == [row EXCEPT !.vmp_updated = NULL]

\* C10: a second run of update_beers_from_vmp against the same source
\* answer leaves the Beer table as the first run left it: the same vmp_ids,
\* and every row equal apart from vmp_updated.
C10_CatalogSyncIdempotent ==
    (last.op = "update_beers_from_vmp" /\ last.repeat) =>
        /\ DOMAIN beers = DOMAIN pre.beers
        /\ \A b \in DOMAIN beers :
              WithoutStamp(beers[b]) = WithoutStamp(pre.beers[b])

\* A second run, at a later time, over a source that lists an existing
\* Beer (whose stamp therefore moved)
C10_Witness ==
    /\ last.op = "update_beers_from_vmp"
    /\ last.repeat
    /\ \E b \in DOMAIN beers : beers[b].vmp_updated # pre.beers[b].vmp_updated

-----------------------------------------------------------------------------
(* match_untappd: automatic matching against the Untappd search *)

\* full_url = f"https://untappd.com{beer_link}", as its "/"-parts; href is
\* the list of parts of beer_link after the leading "/"
UntappdUrl(href) == <<"https:", "", "untappd.com">> \o href

\* the position of the first " x " of a name: a word "x" that is neither
\* the first nor the last word; 0 when there is none
FirstCollab(name) ==
    LET xs == {i \in 2..(Len(name) - 1) : name[i] = "x"} IN
    IF xs = {} THEN 0 ELSE CHOOSE i \in xs : \A j \in xs : i <= j

\* words[:i] for i = from, from - 1, ..., 3
RECURSIVE Truncations(_, _)
Truncations(words, from) ==
    IF from <= 2 THEN <<>>
    ELSE <<SubSeq(words, 1, from)>> \o Truncations(words, from - 1)

\* Command._generate_query_variations
GenerateQueryVariations(name) ==
    LET i == FirstCollab(name)
        collab_removed == IF i = 0 THEN name
                          ELSE SubSeq(name, 1, i - 1)
                               \o SubSeq(name, i + 1, Len(name))
    IN  <<name>> \o (IF i = 0 THEN <<>> ELSE <<collab_removed>>)
        \o Truncations(collab_removed, Len(collab_removed) - 1)

\* One entry of Command._parse_search_results: (name, id, url), with the
\* fuzz.ratio of its name against the Beer's name
SearchResult(name, href, score) ==
    [name |-> name, id |-> LastSegment(href), url |-> UntappdUrl(href),
     score |-> score]

\* _query_untappd returned None (status other than 200)
NoHtml == [ok |-> FALSE, results |-> <<>>]

Html(results) == [ok |-> TRUE, results |-> results]

NoMatch == [found |-> FALSE]

\* process.extractOne(..., scorer=fuzz.ratio): the first result with the
\* highest score; then the first result carrying that name
BestResult(results) ==
    LET best == CHOOSE i \in DOMAIN results :
                    /\ \A j \in DOMAIN results :
                          results[j].score <= results[i].score
                    /\ \A j \in 1..(i - 1) :
                          results[j].score < results[i].score
        first == CHOOSE i \in DOMAIN results :
                    /\ results[i].name = results[best].name
                    /\ \A j \in 1..(i - 1) :
                          results[j].name # results[best].name
    IN [found |-> TRUE, result |-> results[first],
        score |-> results[best].score]

\* Command._find_beer_match: answers[k] is what the search returns for the
\* k-th query; the first query with any result decides
RECURSIVE FindFrom(_, _, _)
FindFrom(answers, k, n) ==
    IF k > n THEN NoMatch
    ELSE IF k <= Len(answers) /\ answers[k].ok /\ answers[k].results # <<>>
    THEN BestResult(answers[k].results)
    ELSE FindFrom(answers, k + 1, n)

FindBeerMatch(beer_name, answers) ==
    FindFrom(answers, 1, Len(GenerateQueryVariations(beer_name)))

\* Command._mark_as_failed without the match_manually assignment
MarkAsFailed_NoFlag(orig, self) ==
    SaveBeer(orig, [self EXCEPT !.description = "Missing on Untappd."]).row

\* Command._mark_as_failed on the instance `self` loaded from `orig`
MarkAsFailed(orig, self) ==
    SaveBeer(orig, [self EXCEPT !.description = "Missing on Untappd.",
                                !.match_manually = TRUE]).row

\* the acceptance threshold of Command._process_beer (score > 40)
MatchThreshold == 40

ScoreAccepted_AtLeast(score) == score # 0 /\ score >= MatchThreshold

ScoreAccepted(score) == score # 0 /\ score > MatchThreshold

\* The assignments of the accepting branch of Command._process_beer
AcceptMatch_IdOnly(orig, result) ==
    [orig EXCEPT !.untpd_id = IntOf[result.id]]

AcceptMatch(orig, result) ==
    [orig EXCEPT !.untpd_id = IntOf[result.id], !.untpd_url = result.url]

\* Command._process_beer: the row in storage afterwards and is_matched.
\* int(result[1]) raising ValueError is caught and routes to
\* _mark_as_failed, like a save that raises.
ProcessBeer(orig, answers) ==
    LET m == FindBeerMatch(orig.vmp_name, answers) IN
    IF m.found /\ ScoreAccepted(m.score)
    THEN IF IsNumeric(m.result.id)
         THEN LET self == AcceptMatch(orig, m.result)
                  saved == SaveBeer(orig, self)
              IN IF saved.raised
                 THEN [row |-> MarkAsFailed(orig, self), is_matched |-> FALSE,
                       match |-> m]
                 ELSE [row |-> saved.row, is_matched |-> TRUE, match |-> m]
         ELSE [row |-> MarkAsFailed(orig, orig), is_matched |-> FALSE,
               match |-> m]
    ELSE [row |-> MarkAsFailed(orig, orig), is_matched |-> FALSE, match |-> m]

\* Beer.objects.filter(untpd_id__isnull=True, match_manually=False,
\*                     active=True)
MatchCandidates(table) ==
    {b \in DOMAIN table :
        /\ table[b].untpd_id = NULL
        /\ ~table[b].match_manually
        /\ table[b].active}

Min(a, b) == IF a < b THEN a ELSE b

rAle41 == SearchResult("Ale Pale", <<"b", "ale-pale", "101">>, 41)
rAle40 == SearchResult("Pale", <<"b", "pale", "102">>, 40)
rAle100 == SearchResult("Ale", <<"b", "ale", "101">>, 100)
rSlash == SearchResult("Ale", <<"b", "ale", "101", "">>, 100)
rZero == SearchResult("Stout", <<"b", "stout", "102">>, 0)

\* What the search answers to the successive queries for one Beer
SearchAnswers ==
    {<<NoHtml>>,
     <<Html(<<>>)>>,
     <<Html(<<rAle40, rAle41>>)>>,
     <<Html(<<rAle40, rZero>>)>>,
     <<Html(<<rZero>>)>>,
     <<Html(<<rAle100>>)>>,
     <<Html(<<rSlash>>)>>,
     <<NoHtml, Html(<<>>), Html(<<rAle41>>)>>,
     <<Html(<<rAle40>>), Html(<<rAle100>>)>>}

CallsArgs == {1, 2}

\* the number of queries Command._find_beer_match sends: the loop over the
\* variants leaves at the first query with any result
RECURSIVE QueriesFrom(_, _, _)
QueriesFrom(answers, k, n) ==
    IF k > n THEN n
    ELSE IF k <= Len(answers) /\ answers[k].ok /\ answers[k].results # <<>>
    THEN k
    ELSE QueriesFrom(answers, k + 1, n)

\* What one iteration of the loop of Command.handle does towards the
\* search index: time.sleep(1), then the queries of _find_beer_match,
\* which follow each other directly
BeerEvents(beer_name, answers) ==
    <<"sleep">> \o
    [i \in 1..QueriesFrom(answers, 1,
                          Len(GenerateQueryVariations(beer_name))) |->
        "query"]

\* the events of the loop over beers[:calls], in id order
RECURSIVE HandleEvents(_, _, _)
HandleEvents(table, todo, answers) ==
    IF todo = {} THEN <<>>
    ELSE LET b == CHOOSE x \in todo : \A y \in todo : x <= y IN
         BeerEvents(table[b].vmp_name, answers[b])
             \o HandleEvents(table, todo \ {b}, answers)

\* Command.handle of match_untappd: beers[:calls] of the (unordered)
\* candidate queryset is some set of min(calls, count) candidates, loaded
\* before the loop; each is processed against what the search answers
MatchUntappd(calls) ==
    \E picked \in SUBSET MatchCandidates(beers) :
    \E answers \in [picked -> SearchAnswers] :
        /\ Cardinality(picked) = Min(calls, Cardinality(MatchCandidates(beers)))
        /\ beers' = [b \in DOMAIN beers |->
                        IF b \in picked
                        THEN ProcessBeer(beers[b], answers[b]).row
                        ELSE beers[b]]
        /\ last' = [op |-> "match_untappd", calls |-> calls,
                    answers |-> answers,
                    events |-> HandleEvents(beers, picked, answers),
                    outcome |-> [b \in picked |->
                        [is_matched |->
                            ProcessBeer(beers[b], answers[b]).is_matched,
                         match |-> ProcessBeer(beers[b], answers[b]).match]]]
        /\ pre' = Snapshot
        /\ UNCHANGED <<now, stocks, tasted, checkins, wrongs, option, stores,
                     unreleased>>

\* remove_match_manually: Beer.objects.filter(match_manually=True)
\*                            .update(match_manually=False)
RemoveMatchManually ==
    /\ beers' = [b \in DOMAIN beers |->
                    [beers[b] EXCEPT !.match_manually = FALSE]]
    /\ last' = [op |-> "remove_match_manually"]
    /\ pre' = Snapshot
    /\ UNCHANGED <<now, stocks, tasted, checkins, wrongs, option, stores,
                     unreleased>>

-----------------------------------------------------------------------------
(* update_beers_from_untappd: enrichment from the Untappd beer page *)

\* a key or element the page does not have
AbsentText == "absent"
AbsentNumber == -2
AbsentUrl == <<"absent">>

\* One fetched beer page.  ok: fetching and parsing did not raise;
\* json_ld: a JSON-LD script was found, with the keys sku .. description;
\* og_url: the content of <meta property="og:url">; fb_*: the elements the
\* HTML fallback reads; style .. label_sm: the HTML-only elements
\* (abv / ibu: the first number of the element, NULL for an element
\* without a number).
BeerPage(json_ld, sku, og_url, abv) ==
    [ok |-> TRUE, json_ld |-> json_ld, sku |-> sku,
     name |-> "Lervig Ale", brand |-> "Lervig", ratingValue |-> 4,
     reviewCount |-> 100, description |-> "Hoppy.",
     og_url |-> og_url,
     fb_brewery |-> "Lervig", fb_name |-> "Ale", fb_rating |-> 3,
     fb_checkins |-> 90, fb_description |-> "Hoppy.",
     style |-> "IPA", abv |-> abv, ibu |-> 40,
     label_hd |-> "https://img/hd.png", label_sm |-> "https://img/sm.png"]

FailedFetch == [ok |-> FALSE]

\* a page without JSON-LD and without any of the elements
BarePage ==
    [ok |-> TRUE, json_ld |-> FALSE, sku |-> AbsentText,
     name |-> AbsentText, brand |-> AbsentText, ratingValue |-> AbsentNumber,
     reviewCount |-> AbsentNumber, description |-> AbsentText,
     og_url |-> AbsentUrl,
     fb_brewery |-> AbsentText, fb_name |-> AbsentText,
     fb_rating |-> AbsentNumber, fb_checkins |-> AbsentNumber,
     fb_description |-> AbsentText,
     style |-> AbsentText, abv |-> AbsentNumber, ibu |-> AbsentNumber,
     label_hd |-> AbsentText, label_sm |-> AbsentText]

Url101 == UntappdUrl(<<"b", "ale", "101">>)
Url101b == UntappdUrl(<<"b", "lervig-ale", "101">>)
Url102 == UntappdUrl(<<"b", "pale", "102">>)
UrlSlash == UntappdUrl(<<"b", "ale", "101", "">>)
ShortUrl == <<"https:", "", "untp.beer", "QmZ">>

BeerPages ==
    {FailedFetch, BarePage,
     BeerPage(TRUE, "101", Url101, 5),
     BeerPage(FALSE, AbsentText, Url102, NULL)}

Default(value, absent, old) == IF value = absent THEN old ELSE value

\* Command._update_from_html_fallback
UpdateFromHtmlFallback(beer, pg) ==
    [beer EXCEPT
        !.untpd_id = IF pg.og_url # AbsentUrl
                        /\ IsNumeric(LastSegment(pg.og_url))
                     THEN IntOf[LastSegment(pg.og_url)] ELSE @,
        !.untpd_name = IF pg.fb_brewery # AbsentText /\ pg.fb_name # AbsentText
                       THEN pg.fb_brewery \o " " \o pg.fb_name ELSE @,
        !.brewery = IF pg.fb_brewery # AbsentText /\ pg.fb_name # AbsentText
                    THEN pg.fb_brewery ELSE @,
        !.rating = Default(pg.fb_rating, AbsentNumber, @),
        !.checkins = Default(pg.fb_checkins, AbsentNumber, @),
        !.description = Default(pg.fb_description, AbsentText, @)]

\* Command._extract_html_only_fields
ExtractHtmlOnlyFields(beer, pg) ==
    [beer EXCEPT
        !.style = Default(pg.style, AbsentText, @),
        !.abv = IF pg.abv = AbsentNumber THEN @
                ELSE IF pg.abv = NULL THEN 0 ELSE pg.abv,
        !.ibu = Default(pg.ibu, AbsentNumber, @),
        !.label_hd_url = Default(pg.label_hd, AbsentText, @),
        !.label_sm_url = Default(pg.label_sm, AbsentText, @),
        !.untpd_url = Default(pg.og_url, AbsentUrl, @)]

\* Command._update_beer_fields.  data["sku"] is written through
\* IntegerField on save: a numeric string is stored as its number.
UpdateBeerFields(beer, pg) ==
    ExtractHtmlOnlyFields(
        IF pg.json_ld
        THEN [beer EXCEPT
                !.untpd_id = IF pg.sku = AbsentText THEN @ ELSE IntOf[pg.sku],
                !.untpd_name = Default(pg.name, AbsentText, @),
                !.brewery = Default(pg.brand, AbsentText, @),
                !.rating = Default(pg.ratingValue, AbsentNumber, @),
                !.checkins = Default(pg.reviewCount, AbsentNumber, @),
                !.description = Default(pg.description, AbsentText, @)]
        ELSE UpdateFromHtmlFallback(beer, pg),
        pg)

\* (beer.volume * 1000 * beer.abv / 100 * 0.8) / 12
AlcoholUnits(volume, abv) ==
    Quot(volume[1] * 1000 * abv * 8, volume[2] * 100 * 10 * 12)

\* Command._update_beer_from_untappd: the row in storage afterwards
UpdateBeerFromUntappd(orig, pg, t) ==
    IF orig.untpd_url = NoUrl \/ ~pg.ok THEN orig
    ELSE LET fields == UpdateBeerFields(orig, pg)
             stamped == [fields EXCEPT !.untpd_updated = t,
                                       !.prioritize_recheck = FALSE]
             self == IF /\ stamped.volume # NoQuot
                        /\ stamped.volume[1] # 0
                        /\ stamped.abv # NULL
                        /\ stamped.abv # 0
                     THEN [stamped EXCEPT !.alcohol_units =
                              AlcoholUnits(stamped.volume, stamped.abv)]
                     ELSE stamped
         IN SaveBeer(orig, self).row

\* timedelta(days=7) and checkins__lte=500 of _get_prioritized_beers
RecheckDays == 7
RecheckMaxCheckins == 500

\* Command._get_prioritized_beers: the position of a Beer in
\* chain(beers1, beers2, beers3, beers4); 0 when it is in none
Priority(row, t) ==
    IF row.untpd_id = NULL \/ ~row.active THEN 0
    ELSE IF row.prioritize_recheck THEN 1
    ELSE IF row.rating = NULL THEN 2
    ELSE IF /\ row.untpd_updated # NULL
            /\ row.untpd_updated <= t - RecheckDays
            /\ row.checkins # NULL
            /\ row.checkins <= RecheckMaxCheckins THEN 3
    ELSE 4

\* a comes before b in the list (the order inside beers1..beers3 is not
\* specified; beers4 is ordered by untpd_updated)
ListedBefore(table, a, b, t) ==
    \/ Priority(table[a], t) < Priority(table[b], t)
    \/ /\ Priority(table[a], t) = 4
       /\ Priority(table[b], t) = 4
       /\ table[a].untpd_updated # NULL
       /\ table[b].untpd_updated # NULL
       /\ table[a].untpd_updated < table[b].untpd_updated

Prioritized(table, t) == {b \in DOMAIN table : Priority(table[b], t) > 0}

\* Command.handle of update_beers_from_untappd: beers[:calls] is a prefix
\* of the prioritized list; each Beer of it is updated from its page
UpdateBeersFromUntappd(calls) ==
    \E picked \in SUBSET Prioritized(beers, now) :
    \E pages \in [picked -> BeerPages] :
        /\ Cardinality(picked) =
              Min(calls, Cardinality(Prioritized(beers, now)))
        /\ \A a \in Prioritized(beers, now) \ picked :
              \A b \in picked : ~ListedBefore(beers, a, b, now)
        /\ beers' = [b \in DOMAIN beers |->
                        IF b \in picked
                        THEN UpdateBeerFromUntappd(beers[b], pages[b], now)
                        ELSE beers[b]]
        /\ last' = [op |-> "update_beers_from_untappd", calls |-> calls,
                    picked |-> picked]
        /\ pre' = Snapshot
        /\ UNCHANGED <<now, stocks, tasted, checkins, wrongs, option, stores,
                     unreleased>>

-----------------------------------------------------------------------------
(* Edits of a Beer through the admin (beers/admin.py) *)

\* BeerAdmin.list_editable = ("match_manually", "active"): one save with
\* both values of the changelist row
EditBeerFlags(b, match_manually, active) ==
    /\ b \in DOMAIN beers
    /\ LET self == [beers[b] EXCEPT !.match_manually = match_manually,
                                    !.active = active]
           saved == SaveBeer(beers[b], self)
       IN /\ beers' = [beers EXCEPT ![b] = saved.row]
          /\ last' = [op |-> "edit_flags", beer |-> b,
                      dirty |-> DirtyFields(beers[b], self),
                      nested |-> saved.nested]
    /\ pre' = Snapshot
    /\ UNCHANGED <<now, stocks, tasted, checkins, wrongs, option, stores,
                     unreleased>>

EditUrls == {Url101, Url101b, Url102, UrlSlash}

\* The change form of BeerAdmin, or of MatchManuallyAdmin
\* (fields = ("vmp_name", "untpd_url")): the operator enters the Untappd URL
EditBeerUrl(b, url) ==
    /\ b \in DOMAIN beers
    /\ LET self == [beers[b] EXCEPT !.untpd_url = url]
           saved == SaveBeer(beers[b], self)
       IN /\ beers' = [beers EXCEPT ![b] = saved.row]
          /\ last' = [op |-> "edit_url", beer |-> b,
                      dirty |-> DirtyFields(beers[b], self),
                      raised |-> saved.raised, nested |-> saved.nested]
    /\ pre' = Snapshot
    /\ UNCHANGED <<now, stocks, tasted, checkins, wrongs, option, stores,
                     unreleased>>

-----------------------------------------------------------------------------
(* WrongMatch.save and the Option row *)

\* "https://untp.beer/" in self.suggested_url
IsShortlink(url) == Len(url) >= 3 /\ url[3] = "untp.beer"

\* requests.head(...).headers["location"]; location = NoUrl stands for the
\* request or the header lookup raising
ResolveSuggested(suggested_url, location) ==
    IF IsShortlink(suggested_url)
    THEN IF location = NoUrl THEN suggested_url ELSE location
    ELSE suggested_url

\* Option.objects.get(name="auto_accept_wrong_match").active, applied to
\* self.accept_change
EffectiveAccept_IgnoreOption(accept_change, opt) == accept_change

EffectiveAccept_Always(accept_change, opt) == TRUE

EffectiveAccept(accept_change, opt) ==
    IF opt = "on" THEN TRUE ELSE accept_change

\* the assignments of the accepting branch of WrongMatch.save
ApplySuggestion(orig, suggested_url) ==
    [orig EXCEPT !.untpd_url = suggested_url,
                 !.untpd_id = IntOf[LastSegment(suggested_url)],
                 !.prioritize_recheck = TRUE,
                 !.verified_match = TRUE,
                 !.match_manually = FALSE]

FreeWrongId == CHOOSE i \in 1..(MaxWrongIds + 1) :
                  /\ \A w \in wrongs : w.id # i
                  /\ \A j \in 1..(i - 1) : \E w \in wrongs : w.id = j

SuggestedUrls == {Url101, Url102, UrlSlash, ShortUrl}
Locations == {NoUrl, Url102}

\* WrongMatch.save of the row `row` (new, or a stored one being edited).
\* super().save() stores the row first; int() of a non-numeric last
\* segment raises ValueError out of save, before beer.save() and delete().
SaveWrongMatch(row, location) ==
    LET b == row.beer
        stored == {w \in wrongs : w.id # row.id} \cup {row}
        suggested_url == ResolveSuggested(row.suggested_url, location)
        accept == EffectiveAccept(row.accept_change, option)
        differs == suggested_url # beers[b].untpd_url
        raises == accept /\ differs /\ ~IsNumeric(LastSegment(suggested_url))
    IN  /\ beers' = IF accept /\ differs /\ ~raises
                    THEN [beers EXCEPT ![b] =
                            SaveBeer(beers[b],
                                     ApplySuggestion(beers[b], suggested_url)).row]
                    ELSE beers
        /\ wrongs' = IF accept /\ ~raises THEN stored \ {row} ELSE stored
        /\ last' = [op |-> "wrongmatch_save", id |-> row.id, beer |-> b,
                    suggested_url |-> suggested_url, accept |-> accept,
                    accept_change |-> row.accept_change,
                    option |-> option, raised |-> raises]
        /\ pre' = Snapshot
        /\ UNCHANGED <<now, stocks, tasted, checkins, option, stores,
                     unreleased>>

\* a WrongMatch is submitted (API: accept_change keeps its default False;
\* admin: any value)
CreateWrongMatch(b, url, accept_change, location) ==
    /\ b \in DOMAIN beers
    /\ Cardinality(wrongs) < MaxWrongIds
    /\ SaveWrongMatch([id |-> FreeWrongId, beer |-> b, suggested_url |-> url,
                       accept_change |-> accept_change], location)

\* an operator ticks accept_change on a stored WrongMatch and saves it
AcceptWrongMatch(w, location) ==
    /\ w \in wrongs
    /\ SaveWrongMatch([w EXCEPT !.accept_change = TRUE], location)

\* the Option row is created, switched or deleted in the admin
SetOption(value) ==
    /\ option # value
    /\ option' = value
    /\ last' = [op |-> "set_option"]
    /\ pre' = Snapshot
    /\ UNCHANGED <<now, beers, stocks, tasted, checkins, wrongs, stores,
                     unreleased>>

-----------------------------------------------------------------------------
(* Matching: specification *)

\* the catalog after a sync that listed one Beer
OneBeerCatalog ==
    ProcessCategories(EmptyTable, <<Category(<<Page(<<pB>>)>>)>>, 1, 0)

InitMatch ==
    /\ now = 0
    /\ beers = OneBeerCatalog
    /\ stocks = EmptyTable
    /\ tasted = {}
    /\ checkins = {}
    /\ wrongs = {}
    /\ option = "absent"
    /\ stores = OneStore
    /\ unreleased = {}
    /\ last = NoOp
    /\ pre = Snapshot

NextMatch ==
    \/ \E calls \in CallsArgs : MatchUntappd(calls)
    \/ \E calls \in CallsArgs : UpdateBeersFromUntappd(calls)
    \/ RemoveMatchManually
    \/ \E b \in VmpIds, m, a \in BOOLEAN : EditBeerFlags(b, m, a)
    \/ \E b \in VmpIds, url \in EditUrls : EditBeerUrl(b, url)

SpecMatch == InitMatch /\ [][NextMatch]_vars

-----------------------------------------------------------------------------
(* Wrong-match correction: specification *)

InitWrong ==
    /\ now = 0
    /\ beers = OneBeerCatalog
    /\ stocks = EmptyTable
    /\ tasted = {}
    /\ checkins = {}
    /\ wrongs = {}
    /\ option \in {"absent", "on", "off"}
    /\ stores = OneStore
    /\ unreleased = {}
    /\ last = NoOp
    /\ pre = Snapshot

NextWrong ==
    \/ \E calls \in CallsArgs : MatchUntappd(calls)
    \/ \E b \in VmpIds, url \in SuggestedUrls, a \in BOOLEAN,
          loc \in Locations : CreateWrongMatch(b, url, a, loc)
    \/ \E w \in wrongs, loc \in Locations : AcceptWrongMatch(w, loc)
    \/ \E value \in {"absent", "on", "off"} : SetOption(value)

SpecWrong == InitWrong /\ [][NextWrong]_vars

-----------------------------------------------------------------------------
(* Claims about matching and correction *)

AllSourceBPopulated(row) ==
    /\ row.untpd_id # NULL /\ row.untpd_name # NONE /\ row.untpd_url # NoUrl
    /\ row.verified_match /\ row.prioritize_recheck
    /\ row.brewery # NONE /\ row.rating # NULL /\ row.checkins # NULL
    /\ row.style # NONE /\ row.description # NONE /\ row.abv # NULL
    /\ row.ibu # NULL /\ row.label_hd_url # NONE /\ row.label_sm_url # NONE
    /\ row.alcohol_units # NoQuot /\ row.untpd_updated # NULL

AllSourceBCleared(row) ==
    /\ row.untpd_id = NULL /\ row.untpd_name = NONE /\ row.untpd_url = NoUrl
    /\ ~row.verified_match /\ ~row.prioritize_recheck
    /\ row.brewery = NONE /\ row.rating = NULL /\ row.checkins = NULL
    /\ row.style = NONE /\ row.description = NONE /\ row.abv = NULL
    /\ row.ibu = NULL /\ row.label_hd_url = NONE /\ row.label_sm_url = NONE
    /\ row.alcohol_units = NoQuot /\ row.untpd_updated = NULL

\* the save that ran last changed match_manually to true on a Beer whose
\* source-B fields were all populated
ManualFlagSetOnPopulated ==
    /\ last.op = "edit_flags"
    /\ "match_manually" \in last.dirty
    /\ beers[last.beer].match_manually
    /\ AllSourceBPopulated(pre.beers[last.beer])

\* C6 as stated: a save that changes match_manually to true on a Beer with
\* all source-B fields populated leaves every source-B field null/false in
\* storage.
C6_ManualFlagClearsSourceB ==
    ManualFlagSetOnPopulated => AllSourceBCleared(beers[last.beer])

\* C6 amended: a save whose only changed field is match_manually, changed
\* to true, on a Beer with all source-B fields populated leaves every
\* source-B field null/false in storage after that same save.
C6_OnlyManualFlagClearsSourceB ==
    (ManualFlagSetOnPopulated /\ last.dirty = {"match_manually"})
        => AllSourceBCleared(beers[last.beer])

C6_Witness ==
    /\ ManualFlagSetOnPopulated
    /\ last.dirty = {"match_manually"}
    /\ last.nested = "once"

\* C7: with auto_accept_wrong_match active, saving a WrongMatch sets the
\* Beer's untpd_url to the resolved suggested URL and untpd_id to its last
\* path segment, and the WrongMatch no longer exists.  A short link whose
\* resolution failed is left out of the cases.
C7_AutoAcceptAppliesAndDeletes ==
    (/\ last.op = "wrongmatch_save"
     /\ last.option = "on"
     /\ ~IsShortlink(last.suggested_url)) =>
        /\ beers[last.beer].untpd_url = last.suggested_url
        /\ IsNumeric(LastSegment(last.suggested_url))
        /\ beers[last.beer].untpd_id = IntOf[LastSegment(last.suggested_url)]
        /\ \A w \in wrongs : w.id # last.id

\* the Beers the match_untappd run that ran last found a best candidate for
Scored == {b \in DOMAIN last.outcome : last.outcome[b].match.found}

Accepted(b) ==
    /\ last.outcome[b].is_matched
    /\ beers[b].untpd_url = last.outcome[b].match.result.url

Rejected(b) ==
    /\ ~last.outcome[b].is_matched
    /\ beers[b].match_manually

\* C8 as stated: a best candidate scoring 41 or more is accepted; one
\* scoring 40 or less is not accepted and sets match_manually.
C8_ThresholdDecides ==
    last.op = "match_untappd" =>
        \A b \in Scored :
            /\ last.outcome[b].match.score >= 41 => Accepted(b)
            /\ last.outcome[b].match.score <= 40 => Rejected(b)

\* C8 amended: a best candidate scoring 41 or more whose id is an integer
\* is accepted; one scoring 40 or less (including exactly 40), or one whose
\* id is not an integer, is not accepted and sets match_manually.
C8_ThresholdDecidesParsedId ==
    last.op = "match_untappd" =>
        \A b \in Scored :
            LET m == last.outcome[b].match IN
            /\ (m.score >= 41 /\ IsNumeric(m.result.id)) => Accepted(b)
            /\ (m.score <= 40 \/ ~IsNumeric(m.result.id)) => Rejected(b)

\* a run whose best candidate scored exactly 41, ahead of one scoring 40,
\* and was accepted
C8_Witness ==
    /\ last.op = "match_untappd"
    /\ \E b \in Scored :
          /\ last.outcome[b].match.score = 41
          /\ Accepted(b)
          /\ beers[b].untpd_id = 101

\* C9 as stated: an accepted candidate leaves the Beer with its id and
\* url, match_manually = false and verified_match = true.
C9_AcceptSetsVerified ==
    last.op = "match_untappd" =>
        \A b \in DOMAIN last.outcome :
            last.outcome[b].is_matched =>
                /\ beers[b].untpd_id = IntOf[last.outcome[b].match.result.id]
                /\ beers[b].untpd_url = last.outcome[b].match.result.url
                /\ ~beers[b].match_manually
                /\ beers[b].verified_match

\* C9 amended: an accepted candidate leaves the Beer with untpd_id and
\* untpd_url set to the candidate's id and url and match_manually = false;
\* verified_match is not set by the match and keeps the value it had.
C9_AcceptKeepsVerified ==
    last.op = "match_untappd" =>
        \A b \in DOMAIN last.outcome :
            last.outcome[b].is_matched =>
                /\ beers[b].untpd_id = IntOf[last.outcome[b].match.result.id]
                /\ beers[b].untpd_url = last.outcome[b].match.result.url
                /\ ~beers[b].match_manually
                /\ beers[b].verified_match = pre.beers[b].verified_match

C9_Witness ==
    /\ last.op = "match_untappd"
    /\ \E b \in DOMAIN last.outcome :
          /\ last.outcome[b].is_matched
          /\ beers[b].untpd_id = 101
          /\ beers[b].untpd_url = Url101
          /\ ~beers[b].verified_match

-----------------------------------------------------------------------------
(* Check-in import: api/utils.py, sync_rss_feeds, sync_tasted, mark_tasted *)

\* A CheckinTuple (beer_id, rating, checkin_at) of a parsed file
Checkin(beer_id, rating, checkin_at) ==
    [beer_id |-> beer_id, rating |-> rating, checkin_at |-> checkin_at]

Max(a, b) == IF a > b THEN a ELSE b

PickHigher(a, b) ==
    IF a = NULL THEN b ELSE IF b = NULL THEN a ELSE Max(a, b)

PickEarlier(a, b) ==
    IF a = NULL THEN b ELSE IF b = NULL THEN a ELSE Min(a, b)

RECURSIVE DedupFrom(_, _, _)
DedupFrom(list, i, best) ==
    IF i > Len(list) THEN best
    ELSE LET c == list[i]
             prev == IF c.beer_id \in DOMAIN best THEN best[c.beer_id]
                     ELSE [rating |-> NULL, checkin_at |-> NULL]
             keep == [rating |-> PickHigher(prev.rating, c.rating),
                      checkin_at |-> PickEarlier(prev.checkin_at,
                                                 c.checkin_at)]
         IN  DedupFrom(list, i + 1,
                       [k \in DOMAIN best \cup {c.beer_id} |->
                            IF k = c.beer_id THEN keep ELSE best[k]])

DedupCheckins(list) == DedupFrom(list, 1, <<>>)

\* An UntappdCheckin row as the ORM builds it from the keyword arguments
\* given; synced and untpd_checkin_id take the field defaults
NewCheckinRow(id, user, untpd_beer_id, rating, checkin_at, untpd_checkin_id) ==
    [id |-> id, user |-> user, untpd_beer_id |-> untpd_beer_id,
     rating |-> rating, checkin_at |-> checkin_at, synced |-> FALSE,
     untpd_checkin_id |-> untpd_checkin_id]

\* the next value of the table's auto-increment id (rows are never deleted)
NextCheckinId(table) == Cardinality(table) + 1

\* the entry a dict comprehension over an unordered queryset keeps for a
\* key: the rows come back in storage order, the last one wins
LastById(rows) == CHOOSE c \in rows : \A d \in rows : d.id <= c.id

FirstById(rows) == CHOOSE c \in rows : \A d \in rows : d.id >= c.id

\* existing = {c.untpd_beer_id: c for c in UntappdCheckin.objects.filter(
\*     user=user, untpd_beer_id__in=deduped.keys())}
ExistingCheckins(table, user, uids) ==
    LET of(uid) == {c \in table : c.user = user /\ c.untpd_beer_id = uid}
        keys == {uid \in uids : of(uid) # {}}
    IN  [uid \in keys |-> LastById(of(uid))]

SaveCheckins_Overwrite(table, user, deduped) ==
    LET existing == ExistingCheckins(table, user, DOMAIN deduped)
        new_ids == DOMAIN deduped \ DOMAIN existing
        rank(uid) == Cardinality({k \in new_ids : k < uid})
        created == {NewCheckinRow(NextCheckinId(table) + rank(uid), user, uid,
                                  deduped[uid].rating,
                                  deduped[uid].checkin_at, NULL) :
                        uid \in new_ids}
        merged(uid) ==
            [existing[uid] EXCEPT
                !.rating = deduped[uid].rating,
                !.checkin_at = deduped[uid].checkin_at]
    IN  (table \ {existing[uid] : uid \in DOMAIN existing})
            \cup {merged(uid) : uid \in DOMAIN existing}
            \cup created

SaveCheckins(table, user, deduped) ==
    LET existing == ExistingCheckins(table, user, DOMAIN deduped)
        new_ids == DOMAIN deduped \ DOMAIN existing
        rank(uid) == Cardinality({k \in new_ids : k < uid})
        created == {NewCheckinRow(NextCheckinId(table) + rank(uid), user, uid,
                                  deduped[uid].rating,
                                  deduped[uid].checkin_at, NULL) :
                        uid \in new_ids}
        merged(uid) ==
            [existing[uid] EXCEPT
                !.rating = PickHigher(@, deduped[uid].rating),
                !.checkin_at = PickEarlier(@, deduped[uid].checkin_at)]
    IN  (table \ {existing[uid] : uid \in DOMAIN existing})
            \cup {merged(uid) : uid \in DOMAIN existing}
            \cup created

\* {b.untpd_id: b for b in Beer.objects.filter(untpd_id__in=ids)}, as the
\* primary key of the Beer kept for each id
UntpdToBeer(beertable, ids) ==
    LET of(uid) == {b \in DOMAIN beertable : beertable[b].untpd_id = uid}
        keys == {uid \in ids : of(uid) # {}}
    IN  [uid \in keys |-> CHOOSE b \in of(uid) : \A o \in of(uid) : o <= b]

\* set(Tasted.objects.filter(user=user, beer__untpd_id__in=ids)
\*         .values_list("beer__untpd_id", flat=True))
ExistingTastedIds_None(tastedtable, beertable, user, ids) == {}

ExistingTastedIds(tastedtable, beertable, user, ids) ==
    {beertable[t.beer].untpd_id :
        t \in {r \in tastedtable :
                  r.user = user /\ beertable[r.beer].untpd_id \in ids}}

TastedRow(user, beer, rating) ==
    [user |-> user, beer |-> beer, rating |-> rating]

SyncMatchedCheckins(beertable, tastedtable, table, user, deduped) ==
    LET untpd_to_beer == UntpdToBeer(beertable, DOMAIN deduped)
        existing_tasted == ExistingTastedIds(tastedtable, beertable, user,
                                             DOMAIN untpd_to_beer)
        tasted_to_create ==
            {TastedRow(user, untpd_to_beer[uid], deduped[uid].rating) :
                uid \in DOMAIN untpd_to_beer \ existing_tasted}
    IN  IF DOMAIN untpd_to_beer = {}
        THEN [tasted |-> tastedtable, checkins |-> table, count |-> 0]
        ELSE [tasted |-> tastedtable \cup tasted_to_create,
              checkins |->
                  {IF c.user = user
                      /\ c.untpd_beer_id \in DOMAIN untpd_to_beer
                   THEN [c EXCEPT !.synced = TRUE] ELSE c : c \in table},
              count |-> Cardinality(DOMAIN untpd_to_beer \ existing_tasted)]

\* UntappdCheckin.objects.filter(id__in=checkin_ids_to_mark)
\*     .update(synced=True)
MarkSynced_Skip(table, ids) == table

MarkSynced(table, ids) ==
    {IF c.id \in ids THEN [c EXCEPT !.synced = TRUE] ELSE c : c \in table}

SyncUnmatchedCheckins_Rescan(beertable, tastedtable, table) ==
    LET unsynced == table
        untpd_to_beer ==
            UntpdToBeer(beertable, {c.untpd_beer_id : c \in unsynced})
        matchable ==
            {c \in unsynced : c.untpd_beer_id \in DOMAIN untpd_to_beer}
        keys == {<<c.user, c.untpd_beer_id>> : c \in matchable}
        first(k) == FirstById({c \in matchable :
                                  c.user = k[1] /\ c.untpd_beer_id = k[2]})
        tasted_to_create ==
            {TastedRow(k[1], untpd_to_beer[k[2]], first(k).rating) :
                k \in keys}
    IN  IF unsynced = {} \/ DOMAIN untpd_to_beer = {}
        THEN [tasted |-> tastedtable, checkins |-> table,
              synced_count |-> 0, users_affected |-> 0]
        ELSE [tasted |-> tastedtable \cup tasted_to_create,
              checkins |-> MarkSynced(table, {c.id : c \in matchable}),
              synced_count |-> Cardinality(keys),
              users_affected |-> Cardinality({k[1] : k \in keys})]

SyncUnmatchedCheckins(beertable, tastedtable, table) ==
    LET unsynced == {c \in table : ~c.synced}
        untpd_to_beer ==
            UntpdToBeer(beertable, {c.untpd_beer_id : c \in unsynced})
        matchable ==
            {c \in unsynced : c.untpd_beer_id \in DOMAIN untpd_to_beer}
        existing_tasted ==
            {<<t.user, beertable[t.beer].untpd_id>> :
                t \in {r \in tastedtable :
                          beertable[r.beer].untpd_id \in DOMAIN untpd_to_beer}}
        \* the loop visits matchable in storage order: the first checkin of
        \* a (user, beer id) pair gives the Tasted row its rating
        keys == {<<c.user, c.untpd_beer_id>> : c \in matchable}
                    \ existing_tasted
        first(k) == FirstById({c \in matchable :
                                  c.user = k[1] /\ c.untpd_beer_id = k[2]})
        tasted_to_create ==
            {TastedRow(k[1], untpd_to_beer[k[2]], first(k).rating) :
                k \in keys}
    IN  IF unsynced = {} \/ DOMAIN untpd_to_beer = {}
        THEN [tasted |-> tastedtable, checkins |-> table,
              synced_count |-> 0, users_affected |-> 0]
        ELSE [tasted |-> tastedtable \cup tasted_to_create,
              checkins |-> MarkSynced(table, {c.id : c \in matchable}),
              synced_count |-> Cardinality(keys),
              users_affected |-> Cardinality({k[1] : k \in keys})]

\* the parsed check-in files a user uploads
CandidateFiles ==
    { <<Checkin(101, 3, 2)>>,
      <<Checkin(101, 3, 2), Checkin(101, 4, 1)>>,
      <<Checkin(101, NULL, NULL), Checkin(102, 4, 2)>>,
      <<Checkin(101, 4, NULL), Checkin(102, NULL, 1), Checkin(101, 3, 2)>> }

Files == {f \in CandidateFiles : Len(f) <= MaxFileLen}

\* bulk_mark_tasted -> bulk_import_tasted(user, checkins)
BulkImportTasted(user, file) ==
    LET deduped == DedupCheckins(file)
        saved == SaveCheckins(checkins, user, deduped)
        synced == SyncMatchedCheckins(beers, tasted, saved, user, deduped)
    IN  /\ Cardinality(saved) <= MaxCheckinRows
        /\ checkins' = synced.checkins
        /\ tasted' = synced.tasted
        /\ last' = [op |-> "bulk_import_tasted", user |-> user, file |-> file,
                    imported_count |-> synced.count,
                    total_check_ins |-> Len(file),
                    repeat |-> IF last.op = "bulk_import_tasted"
                               THEN last.user = user /\ last.file = file
                               ELSE FALSE]
        /\ pre' = Snapshot
        /\ UNCHANGED <<now, beers, stocks, wrongs, option, stores,
                     unreleased>>

\* the sync_tasted command
SyncTasted ==
    LET swept == SyncUnmatchedCheckins(beers, tasted, checkins)
    IN  /\ checkins' = swept.checkins
        /\ tasted' = swept.tasted
        /\ last' = [op |-> "sync_tasted",
                    repeat |-> (last.op = "sync_tasted"),
                    synced_count |-> swept.synced_count,
                    users_affected |-> swept.users_affected]
        /\ pre' = Snapshot
        /\ UNCHANGED <<now, beers, stocks, wrongs, option, stores,
                     unreleased>>

\* a feed entry after _scrape_checkin_page
FeedEntry(checkin_id, beer_id, rating, pub_date) ==
    [checkin_id |-> checkin_id, beer_id |-> beer_id, rating |-> rating,
     pub_date |-> pub_date]

\* the active feeds, each with the entry it holds
Feeds == {[user |-> "u1", entry |-> FeedEntry(9001, 101, 4, 1)],
          [user |-> "u2", entry |-> FeedEntry(9002, 101, 3, 2)]}

\* the users who upload files
Uploaders == {"u1"}

\* _filter_new_entries and _save_checkin: get_or_create on untpd_checkin_id
SaveCheckin(table, user, entry) ==
    IF \E c \in table : c.untpd_checkin_id = entry.checkin_id
    THEN table
    ELSE table \cup {NewCheckinRow(NextCheckinId(table), user, entry.beer_id,
                                   entry.rating, entry.pub_date,
                                   entry.checkin_id)}

\* the sync_rss_feeds command, for the feed of `user` holding `entry`
SyncRssFeeds(user, entry) ==
    LET saved == SaveCheckin(checkins, user, entry)
        swept == SyncUnmatchedCheckins(beers, tasted, saved)
    IN  /\ Cardinality(saved) <= MaxCheckinRows
        /\ checkins' = swept.checkins
        /\ tasted' = swept.tasted
        /\ last' = [op |-> "sync_rss_feeds", user |-> user, entry |-> entry,
                    imported |-> Cardinality(saved \ checkins),
                    synced_count |-> swept.synced_count,
                    users_affected |-> swept.users_affected]
        /\ pre' = Snapshot
        /\ UNCHANGED <<now, beers, stocks, wrongs, option, stores,
                     unreleased>>

\* BeerViewSet.mark_tasted
MarkTasted(user, b, method) ==
    /\ b \in DOMAIN beers
    /\ LET mine == {t \in tasted : t.user = user /\ t.beer = b}
       IN  tasted' = IF method = "POST"
                     THEN IF mine = {}
                          THEN tasted \cup {TastedRow(user, b, NULL)}
                          ELSE tasted
                     ELSE tasted \ mine
    /\ last' = [op |-> "mark_tasted", user |-> user, beer |-> b,
                method |-> method]
    /\ pre' = Snapshot
    /\ UNCHANGED <<now, beers, stocks, checkins, wrongs, option, stores,
                     unreleased>>

InitImport ==
    /\ now = 0
    /\ beers = OneBeerCatalog
    /\ stocks = EmptyTable
    /\ tasted = {}
    /\ checkins = {}
    /\ wrongs = {}
    /\ option = "absent"
    /\ stores = OneStore
    /\ unreleased = {}
    /\ last = NoOp
    /\ pre = Snapshot

NextImport ==
    \/ \E user \in Uploaders, file \in Files : BulkImportTasted(user, file)
    \/ SyncTasted
    \/ \E feed \in Feeds : SyncRssFeeds(feed.user, feed.entry)
    \/ \E user \in Users, b \in VmpIds, method \in {"POST", "DELETE"} :
          MarkTasted(user, b, method)
    \/ \E b \in VmpIds, url \in EditUrls : EditBeerUrl(b, url)

SpecImport == InitImport /\ [][NextImport]_vars

-----------------------------------------------------------------------------
(* Claims about the check-in import *)

\* C4: importing the same file again for the same user, right after
\* importing it, leaves the Tasted rows and the UntappdCheckin rows as the
\* first import left them; the second import reports imported_count = 0 and
\* total_check_ins = the number of check-ins in the file.
C4_ReimportIsIdempotent ==
    (last.op = "bulk_import_tasted" /\ last.repeat) =>
        /\ tasted = pre.tasted
        /\ checkins = pre.checkins
        /\ last.imported_count = 0
        /\ last.total_check_ins = Len(last.file)

\* a second import of a file with two check-ins of a matched Beer, merged
\* into one synced row and one Tasted row by the first import
C4_Witness ==
    /\ last.op = "bulk_import_tasted"
    /\ last.repeat
    /\ Len(last.file) = 2
    /\ \E c \in checkins :
          /\ c.user = last.user /\ c.untpd_beer_id = 101
          /\ c.rating = 4 /\ c.checkin_at = 1 /\ c.synced
    /\ \E t \in tasted : t.user = last.user /\ t.rating = 4

HasBeer(uid) == \E b \in DOMAIN beers : beers[b].untpd_id = uid

TastedOf(table, user, uid) ==
    {t \in table : t.user = user /\ beers[t.beer].untpd_id = uid}

\* the rows the ingestion that ran last created
Ingested == {c \in checkins : \A d \in pre.checkins : d.id # c.id}

\* C5: a check-in ingested (file import or feed) while no Beer has its beer
\* id as untpd_id stays synced = false and no Tasted row is made for it; when
\* sync_tasted then runs with a Beer of that untpd_id present, the check-in
\* becomes synced and exactly one Tasted row for its user and that untpd_id
\* is created (none if the user already had one), so that one Tasted row
\* exists for (user, Beer).
C5_UnmatchedCheckinResync ==
    /\ last.op \in {"bulk_import_tasted", "sync_rss_feeds"} =>
          \A c \in Ingested :
              ~HasBeer(c.untpd_beer_id) =>
                  /\ ~c.synced
                  /\ TastedOf(tasted, c.user, c.untpd_beer_id) = {}
    /\ last.op = "bulk_import_tasted" =>
          ((\A i \in DOMAIN last.file : ~HasBeer(last.file[i].beer_id))
              => tasted = pre.tasted)
    /\ last.op = "sync_tasted" =>
          \A c \in pre.checkins :
              LET uid == c.untpd_beer_id
                  before == TastedOf(pre.tasted, c.user, uid)
                  created == TastedOf(tasted \ pre.tasted, c.user, uid)
                  row == CHOOSE d \in checkins : d.id = c.id
              IN  /\ (~c.synced /\ HasBeer(uid)) =>
                        /\ row.synced
                        /\ before = {} => Cardinality(created) = 1
                        /\ before # {} => created = {}
                        /\ \E b \in DOMAIN beers :
                              /\ beers[b].untpd_id = uid
                              /\ Cardinality({t \in tasted :
                                    t.user = c.user /\ t.beer = b}) = 1
                  /\ (~c.synced /\ ~HasBeer(uid)) =>
                        /\ ~row.synced
                        /\ created = {}

\* a sweep that found an unsynced check-in whose Beer had appeared since,
\* created its Tasted row and marked it synced
C5_Witness ==
    /\ last.op = "sync_tasted"
    /\ last.synced_count = 1
    /\ \E c \in pre.checkins :
          /\ ~c.synced
          /\ HasBeer(c.untpd_beer_id)
          /\ TastedOf(pre.tasted, c.user, c.untpd_beer_id) = {}
          /\ Cardinality(TastedOf(tasted, c.user, c.untpd_beer_id)) = 1
          /\ \E d \in checkins : d.id = c.id /\ d.synced

-----------------------------------------------------------------------------
(* update_stock_from_vmp: the stock refresh *)

\* the availability text of a product, as its words
NumberOf == [w \in {"0", "5"} |-> IF w = "0" THEN 0 ELSE 5]

\* Command._extract_quantity: the first number of the text, or 0; NULL
\* stands for the KeyError of a record without the availability entry
RECURSIVE FirstNumber(_, _)
FirstNumber(words, i) ==
    IF i > Len(words) THEN 0
    ELSE IF words[i] \in DOMAIN NumberOf THEN NumberOf[words[i]]
    ELSE FirstNumber(words, i + 1)

NoAvailability == <<"KeyError">>

ExtractQuantity(availability) ==
    IF availability = NoAvailability THEN NULL
    ELSE FirstNumber(availability, 1)

StockItem(code, availability) ==
    [code |-> code, availability |-> availability]

\* Command._update_beer_stock
UpdateBeerStock_StampUnstocked(stocktable, store, b, quantity, t) ==
    LET k == <<store, b>> IN
    IF k \in DOMAIN stocktable
    THEN [stocktable EXCEPT ![k] =
            [@ EXCEPT !.stocked_at =
                          IF stocktable[k].quantity = 0 /\ quantity # 0
                          THEN t ELSE @,
                      !.unstocked_at = t,
                      !.quantity = quantity]]
    ELSE Put(stocktable, k, StockRow(quantity, t, NULL))

UpdateBeerStock(stocktable, store, b, quantity, t) ==
    LET k == <<store, b>> IN
    IF k \in DOMAIN stocktable
    THEN [stocktable EXCEPT ![k] =
            [@ EXCEPT !.stocked_at =
                          IF stocktable[k].quantity = 0 /\ quantity # 0
                          THEN t ELSE @,
                      !.quantity = quantity]]
    ELSE Put(stocktable, k, StockRow(quantity, t, NULL))

\* the running result of a pass: the Stock table and stocked_beers
Pass(stocktable, seen) == [stocks |-> stocktable, seen |-> seen]

\* The loop over response["products"] of one page.  A code without a Beer
\* is skipped (Beer.DoesNotExist); a record without availability raises
\* after its Beer was appended to stocked_beers and ends the page.
RECURSIVE StockProducts(_, _, _, _, _, _)
StockProducts(acc, beertable, store, products, i, t) ==
    IF i > Len(products) THEN acc
    ELSE LET p == products[i] IN
         IF p.code \notin DOMAIN VmpIdOf \/ VmpIdOf[p.code] \notin DOMAIN beertable
         THEN StockProducts(acc, beertable, store, products, i + 1, t)
         ELSE LET b == VmpIdOf[p.code]
                  quantity == ExtractQuantity(p.availability)
              IN  IF quantity = NULL
                  THEN Pass(acc.stocks, acc.seen \cup {b})
                  ELSE StockProducts(
                          Pass(UpdateBeerStock(acc.stocks, store, b,
                                               quantity, t),
                               acc.seen \cup {b}),
                          beertable, store, products, i + 1, t)

RECURSIVE StockPages(_, _, _, _, _, _)
StockPages(acc, beertable, store, pages, i, t) ==
    IF i > Len(pages) THEN acc
    ELSE StockPages(
            IF pages[i].ok
            THEN StockProducts(acc, beertable, store, pages[i].products, 1, t)
            ELSE acc,
            beertable, store, pages, i + 1, t)

\* Command._process_product_for_store, over the categories of
\* Command._update_store_stock
RECURSIVE StockCategories(_, _, _, _, _, _)
StockCategories(acc, beertable, store, cats, i, t) ==
    IF i > Len(cats) THEN acc
    ELSE StockCategories(
            IF cats[i].ok
            THEN StockPages(acc, beertable, store, cats[i].pages, 1, t)
            ELSE acc,
            beertable, store, cats, i + 1, t)

\* Command._unstock_missing_beers
UnstockMissingBeers_KeepStamp(stocktable, store, seen, t) ==
    [k \in DOMAIN stocktable |->
        IF k[1] = store /\ k[2] \notin seen /\ stocktable[k].quantity # 0
        THEN [stocktable[k] EXCEPT !.quantity = 0]
        ELSE stocktable[k]]

UnstockMissingBeers(stocktable, store, seen, t) ==
    [k \in DOMAIN stocktable |->
        IF k[1] = store /\ k[2] \notin seen /\ stocktable[k].quantity # 0
        THEN [stocktable[k] EXCEPT !.quantity = 0, !.unstocked_at = t]
        ELSE stocktable[k]]

\* Command._update_store_stock: the missing Beers are unstocked only when
\* the pass saw at least one Beer
UpdateStoreStock(stocktable, beertable, store, cats, t) ==
    LET acc == StockCategories(Pass(stocktable, {}), beertable, store,
                               cats, 1, t)
    IN  IF acc.seen # {}
        THEN Pass(UnstockMissingBeers(acc.stocks, store, acc.seen, t),
                  acc.seen)
        ELSE acc

Some == <<"Flere", "enn", "5">>
SoldOut == <<"Utsolgt">>

\* What the source answers for the store during one run of the job
StockSources ==
    <<[configured |-> FALSE, categories |-> <<>>],
      [configured |-> TRUE,
       categories |-> <<Category(<<Page(<<StockItem("1", Some),
                                         StockItem("2", Some)>>)>>)>>],
      [configured |-> TRUE,
       categories |-> <<Category(<<Page(<<StockItem("1", SoldOut)>>)>>)>>],
      [configured |-> TRUE,
       categories |-> <<FailedCategory, Category(<<FailedPage>>)>>],
      [configured |-> TRUE,
       categories |-> <<Category(<<Page(<<StockItem("9", Some),
                                         StockItem("2", Some)>>)>>)>>],
      [configured |-> TRUE,
       categories |-> <<Category(<<Page(<<StockItem("1", NoAvailability),
                                         StockItem("2", Some)>>)>>)>>]>>

\* Command.handle of update_stock_from_vmp with stores = 1 against answer
\* number n: `store` is the Store with the oldest store_stock_updated
UpdateStockFromVmp(store, n) ==
    LET src == StockSources[n]
        done == UpdateStoreStock(stocks, beers, store, src.categories, now)
    IN  /\ OldestStore(stores, store)
        /\ stocks' = IF src.configured THEN done.stocks ELSE stocks
        /\ stores' = IF src.configured THEN SaveStore(stores, store)
                      ELSE stores
        /\ last' = [op |-> "update_stock_from_vmp", store |-> store,
                    src |-> n, ran |-> src.configured,
                    seen |-> IF src.configured THEN done.seen ELSE {},
                    at |-> now]
        /\ pre' = Snapshot
        /\ UNCHANGED <<now, beers, tasted, checkins, wrongs, option,
                     unreleased>>

\* the catalog after a sync that listed two Beers
TwoBeerCatalog ==
    ProcessCategories(EmptyTable, <<Category(<<Page(<<pA, pB>>)>>)>>, 1, 0)

InitStock ==
    /\ now = 0
    /\ beers = TwoBeerCatalog
    /\ stocks = EmptyTable
    /\ tasted = {}
    /\ checkins = {}
    /\ wrongs = {}
    /\ option = "absent"
    /\ stores = OneStore
    /\ unreleased = {}
    /\ last = NoOp
    /\ pre = Snapshot

NextStock ==
    \/ Tick
    \/ \E store \in Stores, n \in DOMAIN StockSources :
          UpdateStockFromVmp(store, n)
    \/ \E days \in DaysArgs : DeactivateInactive(days)

SpecStock == InitStock /\ [][NextStock]_vars

-----------------------------------------------------------------------------
(* Claims about the stock refresh *)

\* the Stock rows of the refreshed store that existed before the pass
PassRows ==
    {k \in DOMAIN pre.stocks : k[1] = last.store}

\* C11: in a stock refresh pass, an existing Stock row with quantity 0 that
\* is seen with a nonzero quantity gets stocked_at = the pass time and keeps
\* its unstocked_at.
C11_RestockStampsStockedAt ==
    (last.op = "update_stock_from_vmp" /\ last.ran) =>
        \A k \in PassRows :
            (pre.stocks[k].quantity = 0 /\ stocks[k].quantity # 0) =>
                /\ k[2] \in last.seen
                /\ stocks[k].stocked_at = last.at
                /\ stocks[k].unstocked_at = pre.stocks[k].unstocked_at

\* a row that had sold out earlier comes back in stock in a later pass
C11_Witness ==
    /\ last.op = "update_stock_from_vmp"
    /\ last.ran
    /\ \E k \in PassRows :
          /\ pre.stocks[k].quantity = 0
          /\ pre.stocks[k].unstocked_at # NULL
          /\ pre.stocks[k].stocked_at < last.at
          /\ stocks[k].quantity = 5
          /\ stocks[k].stocked_at = last.at

\* the rows the pass did not see and that held stock
MissingRows ==
    {k \in PassRows : k[2] \notin last.seen /\ pre.stocks[k].quantity # 0}

\* C12 as stated: after a pass, every Stock row of the store whose Beer was
\* not seen and whose quantity was nonzero has quantity 0 and unstocked_at =
\* the pass time.
C12_MissingRowsUnstocked ==
    (last.op = "update_stock_from_vmp" /\ last.ran) =>
        \A k \in MissingRows :
            /\ stocks[k].quantity = 0
            /\ stocks[k].unstocked_at = last.at

\* C12 amended: after a pass that saw at least one Beer of the catalog,
\* every Stock row of the store whose Beer was not seen and whose quantity
\* was nonzero has quantity 0 and unstocked_at = the pass time; a pass that
\* saw no Beer leaves every Stock row as it was.
C12_MissingRowsUnstockedIfAnySeen ==
    (last.op = "update_stock_from_vmp" /\ last.ran) =>
        /\ last.seen # {} =>
              \A k \in MissingRows :
                  /\ stocks[k].quantity = 0
                  /\ stocks[k].unstocked_at = last.at
        /\ last.seen = {} => stocks = pre.stocks

C12_Witness ==
    /\ last.op = "update_stock_from_vmp"
    /\ last.ran
    /\ last.seen # {}
    /\ \E k \in MissingRows :
          /\ pre.stocks[k].unstocked_at # last.at
          /\ stocks[k].quantity = 0
          /\ stocks[k].unstocked_at = last.at

\* C13: every time a Stock row's quantity goes from nonzero to zero (the
\* source reports 0, the Beer is no longer seen, or the Beer is
\* deactivated) unstocked_at is set to the time of that drop.
C13_DropStampsUnstockedAt ==
    last.op \in {"update_stock_from_vmp", "deactivate_inactive"} =>
        \A k \in DOMAIN pre.stocks :
            (pre.stocks[k].quantity # 0 /\ stocks[k].quantity = 0) =>
                stocks[k].unstocked_at = last.at

-----------------------------------------------------------------------------
(* Claims about the source-B identity fields *)

IdMatchesUrl(row) ==
    row.untpd_url # NoUrl =>
        /\ IsNumeric(LastSegment(row.untpd_url))
        /\ row.untpd_id = IntOf[LastSegment(row.untpd_url)]

\* The change form of MatchManuallyAdmin with both of its fields edited:
\* the operator corrects the name and enters the Untappd URL in one save
FormNames == {<<"Ale">>, BockName}

EditMatchManuallyForm(b, vmp_name, url) ==
    /\ b \in DOMAIN beers
    /\ LET self == [beers[b] EXCEPT !.vmp_name = vmp_name,
                                    !.untpd_url = url]
           saved == SaveBeer(beers[b], self)
       IN /\ beers' = [beers EXCEPT ![b] = saved.row]
          /\ last' = [op |-> "edit_form", beer |-> b,
                      dirty |-> DirtyFields(beers[b], self),
                      raised |-> saved.raised, nested |-> saved.nested]
    /\ pre' = Snapshot
    /\ UNCHANGED <<now, stocks, tasted, checkins, wrongs, option, stores,
                     unreleased>>

\* every operation that writes the identity fields of a Beer
InitIdentity ==
    /\ now = 0
    /\ beers = OneBeerCatalog
    /\ stocks = EmptyTable
    /\ tasted = {}
    /\ checkins = {}
    /\ wrongs = {}
    /\ option = "on"
    /\ stores = OneStore
    /\ unreleased = {}
    /\ last = NoOp
    /\ pre = Snapshot

NextIdentity ==
    \/ \E calls \in CallsArgs : MatchUntappd(calls)
    \/ \E calls \in CallsArgs : UpdateBeersFromUntappd(calls)
    \/ \E b \in VmpIds, url \in SuggestedUrls, loc \in Locations :
          CreateWrongMatch(b, url, FALSE, loc)
    \/ \E b \in VmpIds, url \in EditUrls : EditBeerUrl(b, url)
    \/ \E b \in VmpIds, name \in FormNames, url \in EditUrls :
          EditMatchManuallyForm(b, name, url)

SpecIdentity == InitIdentity /\ [][NextIdentity]_vars

\* C14: in every reachable state, every Beer whose untpd_url is set has
\* untpd_id equal to the trailing path segment of untpd_url.
C14_IdIsTrailingSegment ==
    \A b \in DOMAIN beers : IdMatchesUrl(beers[b])

-----------------------------------------------------------------------------
(* Catalog sync of matched Beers: specification and claims *)

InitFrame ==
    /\ now = 0
    /\ beers = OneBeerCatalog
    /\ stocks = EmptyTable
    /\ tasted = {}
    /\ checkins = {}
    /\ wrongs = {}
    /\ option = "absent"
    /\ stores = OneStore
    /\ unreleased = {}
    /\ last = NoOp
    /\ pre = Snapshot

\* the answers of the source that list the one Beer of this catalog
FrameSources == {1, 4}

NextFrame ==
    \/ Tick
    \/ \E n \in FrameSources : UpdateBeersFromVmp(n)
    \/ \E calls \in CallsArgs : MatchUntappd(calls)
    \/ \E calls \in CallsArgs : UpdateBeersFromUntappd(calls)

SpecFrame == InitFrame /\ [][NextFrame]_vars

\* the fields source B owns, with the manual-match flag
SourceBOwned == SourceBFields \cup {"match_manually"}

\* C15: when the catalog sync updates an existing Beer, every source-B
\* field of that Beer has the same value after the sync as before.
C15_SyncKeepsSourceB ==
    last.op = "update_beers_from_vmp" =>
        \A b \in DOMAIN pre.beers :
            \A f \in SourceBOwned : beers[b][f] = pre.beers[b][f]

\* a sync that rewrote the source-A fields of a matched and enriched Beer
C15_Witness ==
    /\ last.op = "update_beers_from_vmp"
    /\ \E b \in DOMAIN pre.beers :
          /\ pre.beers[b].untpd_id = 101
          /\ pre.beers[b].rating # NULL
          /\ pre.beers[b].untpd_updated # NULL
          /\ beers[b].vmp_updated > pre.beers[b].vmp_updated
          /\ beers[b].rating = pre.beers[b].rating

\* the records of a page that were processed without error: those before
\* the first record that raises
ProcessedOnPage(products) ==
    {VmpIdOf[products[i].code] :
        i \in {j \in DOMAIN products :
                  \A h \in 1..j : ~RecordRaises(products[h])}}

\* the Beers whose record a category processed without error
ProcessedInCategory(cat) ==
    IF ~cat.ok THEN {}
    ELSE UNION {ProcessedOnPage(cat.pages[g].products) :
                  g \in {h \in DOMAIN cat.pages : cat.pages[h].ok}}

ProcessedBy(src) ==
    IF ~src.configured THEN {}
    ELSE UNION {ProcessedInCategory(src.categories[c]) :
                  c \in DOMAIN src.categories}

\* C16: after a catalog sync pass, every Beer whose record was returned by
\* the source and processed without error has active = true and
\* vmp_updated = the pass time, also when the deactivation sweep had set it
\* inactive.
C16_ProcessedBeersActiveAndStamped ==
    last.op = "update_beers_from_vmp" =>
        \A b \in ProcessedBy(Sources[last.src]) :
            /\ b \in DOMAIN beers
            /\ beers[b].active
            /\ beers[b].vmp_updated = last.at

\* a Beer the sweep had deactivated is listed again and becomes active
C16_Witness ==
    /\ last.op = "update_beers_from_vmp"
    /\ \E b \in ProcessedBy(Sources[last.src]) \cap DOMAIN pre.beers :
          /\ ~pre.beers[b].active
          /\ pre.beers[b].vmp_updated < last.at
          /\ beers[b].active
          /\ beers[b].vmp_updated = last.at

-----------------------------------------------------------------------------
(* Check-in import with two Beers of the catalog matched to one Untappd beer *)

SharedUrls == {Url101, Url101b}

InitShared ==
    /\ now = 0
    /\ beers = TwoBeerCatalog
    /\ stocks = EmptyTable
    /\ tasted = {}
    /\ checkins = {}
    /\ wrongs = {}
    /\ option = "absent"
    /\ stores = OneStore
    /\ unreleased = {}
    /\ last = NoOp
    /\ pre = Snapshot

NextShared ==
    \/ \E user \in Uploaders, file \in Files : BulkImportTasted(user, file)
    \/ SyncTasted
    \/ \E b \in VmpIds, url \in SharedUrls : EditBeerUrl(b, url)

SpecShared == InitShared /\ [][NextShared]_vars

\* the Beers matched to a beer id of the batch
MatchedToBatch(file) ==
    {b \in DOMAIN beers : beers[b].untpd_id \in DOMAIN DedupCheckins(file)}

\* C17: after bulk_import_tasted(user, checkins) commits, the user has a
\* Tasted record for every Beer whose untpd_id is a beer id of the batch
\* (each of them when several Beers share the untpd_id), and every
\* UntappdCheckin of the user with such a beer id has synced = true.
C17_EveryMatchedBeerTasted ==
    last.op = "bulk_import_tasted" =>
        /\ \A b \in MatchedToBatch(last.file) :
              \E t \in tasted : t.user = last.user /\ t.beer = b
        /\ \A c \in checkins :
              (/\ c.user = last.user
               /\ \E b \in MatchedToBatch(last.file) :
                     beers[b].untpd_id = c.untpd_beer_id)
                  => c.synced

-----------------------------------------------------------------------------
(* Claims about the rating and the stored rows of the check-in import *)

DerivingOps == {"bulk_import_tasted", "sync_tasted", "sync_rss_feeds"}

\* the highest non-null rating among the stored check-ins of a user for a
\* beer id, NULL when there is none
BestStoredRating(user, uid) ==
    LET ratings == {c.rating : c \in {d \in checkins :
                        d.user = user /\ d.untpd_beer_id = uid}} \ {NULL}
    IN  IF ratings = {} THEN NULL
        ELSE CHOOSE r \in ratings : \A q \in ratings : q <= r

\* C18: a Tasted record derived from check-ins (by bulk_import_tasted or by
\* sync_unmatched_checkins) has the highest non-null rating among that
\* user's stored UntappdCheckin rows for that beer id at that moment,
\* ratings stored by earlier imports included.
C18_TastedHasBestStoredRating ==
    last.op \in DerivingOps =>
        \A t \in tasted \ pre.tasted :
            t.rating = BestStoredRating(t.user, beers[t.beer].untpd_id)

\* the file-derived check-in rows of a user for a beer id
FileRows(table, user, uid) ==
    {c \in table : /\ c.user = user
                   /\ c.untpd_beer_id = uid
                   /\ c.untpd_checkin_id = NULL}

ReverseFile(file) == [i \in 1..Len(file) |-> file[Len(file) + 1 - i]]

\* C19: after a file import there is, for the user and each beer id of the
\* file, exactly one file-derived UntappdCheckin row; it holds the higher of
\* the rating imported before and the file's, and the earlier of the
\* timestamp imported before and the file's; the order of the records in
\* the file does not matter.
C19_OneFileRowHoldsBest ==
    last.op = "bulk_import_tasted" =>
        LET deduped == DedupCheckins(last.file) IN
        /\ deduped = DedupCheckins(ReverseFile(last.file))
        /\ \A uid \in DOMAIN deduped :
              LET before == FileRows(pre.checkins, last.user, uid)
                  after == FileRows(checkins, last.user, uid)
              IN  /\ Cardinality(before) <= 1
                  /\ Cardinality(after) = 1
                  /\ \A c \in after :
                        /\ c.rating =
                              IF before = {} THEN deduped[uid].rating
                              ELSE PickHigher((CHOOSE d \in before : TRUE).rating,
                                              deduped[uid].rating)
                        /\ c.checkin_at =
                              IF before = {} THEN deduped[uid].checkin_at
                              ELSE PickEarlier(
                                      (CHOOSE d \in before : TRUE).checkin_at,
                                      deduped[uid].checkin_at)

-----------------------------------------------------------------------------
(* Check-in import interrupted by a failure *)

\* bulk_import_tasted when a statement inside `with transaction.atomic()`
\* fails: the block is rolled back and the exception leaves the function
BulkImportTastedInterrupted(user, file) ==
    /\ last' = [op |-> "bulk_import_tasted_failed", user |-> user,
                file |-> file]
    /\ pre' = Snapshot
    /\ UNCHANGED <<now, beers, stocks, tasted, checkins, wrongs, option, stores,
                     unreleased>>

\* sync_unmatched_checkins when it fails after `written` of its two
\* statements (Tasted.objects.bulk_create, then the update of synced):
\* there is no transaction, each statement is committed as it runs
SyncTastedInterrupted(written) ==
    LET swept == SyncUnmatchedCheckins(beers, tasted, checkins)
    IN  /\ tasted' = IF written >= 1 THEN swept.tasted ELSE tasted
        /\ last' = [op |-> "sync_tasted_failed", written |-> written]
        /\ pre' = Snapshot
        /\ UNCHANGED <<now, beers, stocks, checkins, wrongs, option, stores,
                     unreleased>>

NextCrash ==
    \/ \E user \in Uploaders, file \in Files : BulkImportTasted(user, file)
    \/ \E user \in Uploaders, file \in Files :
          BulkImportTastedInterrupted(user, file)
    \/ SyncTasted
    \/ \E written \in {0, 1} : SyncTastedInterrupted(written)
    \/ \E b \in VmpIds, url \in SharedUrls : EditBeerUrl(b, url)

SpecCrash == InitImport /\ [][NextCrash]_vars

\* C20: bulk_import_tasted and sync_unmatched_checkins are all-or-nothing:
\* after a failure storage is the pre-state or the fully applied
\* post-state, never Tasted records created with the check-ins not marked
\* synced, nor check-ins saved without their Tasted records.
C20_AllOrNothing ==
    /\ last.op = "bulk_import_tasted_failed" =>
          LET deduped == DedupCheckins(last.file)
              saved == SaveCheckins(pre.checkins, last.user, deduped)
              full == SyncMatchedCheckins(pre.beers, pre.tasted, saved,
                                          last.user, deduped)
          IN  \/ tasted = pre.tasted /\ checkins = pre.checkins
              \/ tasted = full.tasted /\ checkins = full.checkins
    /\ last.op = "sync_tasted_failed" =>
          LET full == SyncUnmatchedCheckins(pre.beers, pre.tasted,
                                            pre.checkins)
          IN  \/ tasted = pre.tasted /\ checkins = pre.checkins
              \/ tasted = full.tasted /\ checkins = full.checkins

-----------------------------------------------------------------------------
(* Claims about stored check-in rows *)

\* the row that a stored check-in has become
RowNow(c) == {d \in checkins : d.id = c.id}

C22_ResyncIsIdempotent ==
    (last.op = "sync_tasted" /\ last.repeat) =>
        /\ tasted = pre.tasted
        /\ checkins = pre.checkins
        /\ last.synced_count = 0
        /\ last.users_affected = 0

\* the repeated run had a matched, synced check-in behind it and an
\* unmatched one still to scan
C22_Witness ==
    /\ last.op = "sync_tasted"
    /\ last.repeat
    /\ \E c \in checkins : c.synced /\ HasBeer(c.untpd_beer_id)
    /\ \E c \in checkins : ~c.synced /\ ~HasBeer(c.untpd_beer_id)
    /\ tasted # {}

-----------------------------------------------------------------------------
(* Claims about pending and duplicate corrections *)

\* C23: saving a WrongMatch when the auto_accept_wrong_match option is
\* absent or inactive and accept_change is false leaves the WrongMatch
\* stored for manual review and changes no field of the referenced Beer.
C23_PendingCorrectionKept ==
    (/\ last.op = "wrongmatch_save"
     /\ last.option \in {"absent", "off"}
     /\ ~last.accept_change) =>
        /\ \E w \in wrongs : /\ w.id = last.id
                             /\ w.beer = last.beer
                             /\ ~w.accept_change
        /\ beers = pre.beers

\* a correction that would change the Beer's URL stays pending
C23_Witness ==
    /\ last.op = "wrongmatch_save"
    /\ last.option \in {"absent", "off"}
    /\ ~last.accept_change
    /\ IsNumeric(LastSegment(last.suggested_url))
    /\ beers[last.beer].untpd_url # NoUrl
    /\ last.suggested_url # beers[last.beer].untpd_url
    /\ \E w \in wrongs : w.id = last.id

\* C24: saving a WrongMatch whose resolved suggested URL equals the Beer's
\* current untpd_url discards the WrongMatch record and leaves the Beer
\* unchanged.
C24_DuplicateCorrectionDiscarded ==
    (/\ last.op = "wrongmatch_save"
     /\ last.suggested_url = pre.beers[last.beer].untpd_url) =>
        /\ \A w \in wrongs : w.id # last.id
        /\ beers = pre.beers

-----------------------------------------------------------------------------
(* Claims about Beer.save *)

SavingOps == {"edit_flags", "edit_url", "edit_form"}

\* C25: Beer.save() re-enters itself at most once: for every prior state of
\* the Beer (one whose source-B fields are already all null/false included)
\* a save whose only dirty field is untpd_url or match_manually applies its
\* side effects, re-enters save once, and the re-entered call makes no
\* further nested call.
C25_SaveReentersAtMostOnce ==
    (/\ last.op \in SavingOps
     /\ last.dirty \in {{"untpd_url"}, {"match_manually"}}) =>
        last.nested \in {"none", "once"}

-----------------------------------------------------------------------------
(* Store-metadata sync and the rotation of the stock refresh *)

StoreIds == {1, 2}

\* One entry of the stores facet, with whether its details were fetched
StoreData(code, ok) == [code |-> code, ok |-> ok]

\* Command._process_store for the entries of the list in turn: a store
\* whose details were fetched is updated and saved, or created
RECURSIVE ProcessStores(_, _, _)
ProcessStores(table, listed, i) ==
    IF i > Len(listed) THEN table
    ELSE ProcessStores(
            IF listed[i].ok THEN SaveStore(table, listed[i].code) ELSE table,
            listed, i + 1)

\* What the source answers during one run of update_stores_from_vmp
StoreAnswers ==
    <<[configured |-> FALSE, fetched |-> FALSE, listed |-> <<>>],
      [configured |-> TRUE, fetched |-> FALSE, listed |-> <<>>],
      [configured |-> TRUE, fetched |-> TRUE,
       listed |-> <<StoreData(1, TRUE), StoreData(2, TRUE)>>],
      [configured |-> TRUE, fetched |-> TRUE,
       listed |-> <<StoreData(2, TRUE), StoreData(1, TRUE)>>],
      [configured |-> TRUE, fetched |-> TRUE,
       listed |-> <<StoreData(1, FALSE), StoreData(2, TRUE)>>]>>

\* Command.handle of update_stores_from_vmp against answer number n
UpdateStoresFromVmp(n) ==
    LET ans == StoreAnswers[n] IN
    /\ stores' = IF ans.configured /\ ans.fetched
                 THEN ProcessStores(stores, ans.listed, 1)
                 ELSE stores
    /\ last' = [op |-> "update_stores_from_vmp", answer |-> n]
    /\ pre' = Snapshot
    /\ UNCHANGED <<now, beers, stocks, tasted, checkins, wrongs, option,
                     unreleased>>

\* the answers of the source to a stock refresh that is configured
RefreshSources == {n \in DOMAIN StockSources : StockSources[n].configured}

StockRefresh ==
    \E store \in StoreIds, n \in RefreshSources : UpdateStockFromVmp(store, n)

InitStores ==
    /\ now = 0
    /\ beers = TwoBeerCatalog
    /\ stocks = EmptyTable
    /\ tasted = {}
    /\ checkins = {}
    /\ wrongs = {}
    /\ option = "absent"
    /\ stores = ProcessStores(<<>>, StoreAnswers[3].listed, 1)
    /\ unreleased = {}
    /\ last = NoOp
    /\ pre = Snapshot

NextStores ==
    \/ StockRefresh
    \/ \E n \in DOMAIN StoreAnswers : UpdateStoresFromVmp(n)

\* the stock refresh is scheduled again and again
LiveStores == InitStores /\ [][NextStores]_vars /\ WF_vars(StockRefresh)

\* the stock refresh alone, without the store-metadata sync
LiveRefreshOnly == InitStores /\ [][StockRefresh]_vars /\ WF_vars(StockRefresh)

Refreshed(s) ==
    last.op = "update_stock_from_vmp" /\ last.ran /\ last.store = s

\* C26: under repeated runs of the stock refresh with a store limit, which
\* picks the stores with the oldest store_stock_updated, every Store is
\* eventually refreshed, also when runs of update_stores_from_vmp are
\* interleaved between the stock refresh runs.
C26_EveryStoreEventuallyRefreshed ==
    \A s \in StoreIds : <>Refreshed(s)

\* without the store-metadata sync the refresh reaches every Store
RotationReachesEveryStore ==
    \A s \in StoreIds : []<>Refreshed(s)

-----------------------------------------------------------------------------
(* Claims about the query variants of match_untappd *)

\* the query variants of Beer b that the search answered with a best
\* result above the threshold whose id is an integer
AcceptableVariants(b) ==
    {k \in 1..Len(GenerateQueryVariations(pre.beers[b].vmp_name)) :
        /\ k <= Len(last.answers[b])
        /\ last.answers[b][k].ok
        /\ last.answers[b][k].results # <<>>
        /\ ScoreAccepted(BestResult(last.answers[b][k].results).score)
        /\ IsNumeric(BestResult(last.answers[b][k].results).result.id)}

\* C27: when the best result of a query variant scores 40 or less,
\* match_untappd goes on to the next variant; the Beer is flagged for
\* manual matching only if no variant yields a result scoring above 40.
C27_FlaggedOnlyIfNoVariantMatches ==
    last.op = "match_untappd" =>
        \A b \in DOMAIN last.outcome :
            ~last.outcome[b].is_matched => AcceptableVariants(b) = {}

-----------------------------------------------------------------------------
(* Claims about failures during a stock refresh *)

\* the Beers the source lists for the store in answer number n, on pages
\* whose processing failed included
ListedBeers(n) ==
    {VmpIdOf[p.code] :
        p \in {q \in UNION {UNION {{pg.products[i] : i \in DOMAIN pg.products} :
                                      pg \in {cat.pages[j] : j \in DOMAIN cat.pages}} :
                               cat \in {StockSources[n].categories[c] :
                                           c \in DOMAIN StockSources[n].categories}} :
                  q.code \in DOMAIN VmpIdOf}}

\* C28: a stock refresh pass zeroes a Stock row only if its Beer is absent
\* from the store's listing at the source: a failure while fetching or
\* processing a page or category does not set the Stock rows of the Beers
\* listed on the failed page to quantity 0.
C28_ListedBeersNotZeroed ==
    (last.op = "update_stock_from_vmp" /\ last.ran) =>
        \A k \in MissingRows :
            stocks[k].quantity = 0 => k[2] \notin ListedBeers(last.src)

-----------------------------------------------------------------------------
(* Catalog sync and enrichment of the same Beers *)

DerivedSources == {2, 3}

NextDerived ==
    \/ \E n \in DerivedSources : UpdateBeersFromVmp(n)
    \/ \E b \in VmpIds : EditBeerUrl(b, Url101)
    \/ \E calls \in CallsArgs : UpdateBeersFromUntappd(calls)

SpecDerived == InitShared /\ [][NextDerived]_vars

\* C29: after every write of a pipeline job a Beer's derived fields agree
\* with its source fields: price_per_volume = price / volume whenever both
\* are set, and alcohol_units = volume * 1000 * abv / 100 * 0.8 / 12
\* whenever volume and abv are set (and not zero), also after a catalog
\* update changed volume or price and after an enrichment changed abv.
C29_DerivedFieldsAgree ==
    \A b \in DOMAIN beers :
        /\ (/\ beers[b].price # NULL
            /\ beers[b].volume # NoQuot
            /\ beers[b].volume[1] # 0) =>
              beers[b].price_per_volume =
                  Quot(beers[b].price * beers[b].volume[2], beers[b].volume[1])
        /\ (/\ beers[b].volume # NoQuot
            /\ beers[b].volume[1] # 0
            /\ beers[b].abv # NULL
            /\ beers[b].abv # 0) =>
              beers[b].alcohol_units =
                  AlcoholUnits(beers[b].volume, beers[b].abv)

-----------------------------------------------------------------------------
(* Claims about failures during a catalog sync *)

\* the records of the pages that were fetched, up to the first record of
\* each page that raises
FetchedRecords(src) ==
    IF ~src.configured THEN {}
    ELSE UNION {UNION {{pg.products[i] :
                          i \in {j \in DOMAIN pg.products :
                                    \A h \in 1..j : ~RecordRaises(pg.products[h])}} :
                       pg \in {cat.pages[g] :
                                  g \in {h \in DOMAIN cat.pages : cat.pages[h].ok}}} :
                cat \in {src.categories[c] :
                            c \in {d \in DOMAIN src.categories :
                                      src.categories[d].ok}}}

\* the answer holds a category or a page that failed, or a record that
\* raises
HasFailure(src) ==
    /\ src.configured
    /\ \E c \in DOMAIN src.categories :
          \/ ~src.categories[c].ok
          \/ \E g \in DOMAIN src.categories[c].pages :
                \/ ~src.categories[c].pages[g].ok
                \/ \E i \in DOMAIN src.categories[c].pages[g].products :
                      RecordRaises(src.categories[c].pages[g].products[i])

\* the row is what an upsert of the record leaves
UpsertOf(row, p) ==
    /\ row.vmp_name = p.name
    /\ row.price = p.price
    /\ row.volume = Quot(p.volume, 100)
    /\ row.price_per_volume = CalculatePricePerVolume(p.price, p.volume)

\* C30: in the catalog sync a failure while fetching or processing one
\* category or one page does not stop the job: every other category and
\* every remaining page of the same category is still fetched and its
\* records are upserted.
C30_FailureDoesNotStopSync ==
    (last.op = "update_beers_from_vmp" /\ HasFailure(Sources[last.src])) =>
        \A p \in FetchedRecords(Sources[last.src]) :
            /\ VmpIdOf[p.code] \in DOMAIN beers
            /\ beers[VmpIdOf[p.code]].vmp_updated = last.at
            /\ \E q \in FetchedRecords(Sources[last.src]) :
                  q.code = p.code /\ UpsertOf(beers[VmpIdOf[p.code]], q)

\* a Beer is created from a page that comes after a failed category and a
\* failed page
C30_Witness ==
    /\ last.op = "update_beers_from_vmp"
    /\ Sources[last.src].configured
    /\ ~Sources[last.src].categories[1].ok
    /\ Sources[last.src].categories[2].ok
    /\ ~Sources[last.src].categories[2].pages[1].ok
    /\ \E p \in FetchedRecords(Sources[last.src]) :
          /\ VmpIdOf[p.code] \notin DOMAIN pre.beers
          /\ VmpIdOf[p.code] \in DOMAIN beers
          /\ UpsertOf(beers[VmpIdOf[p.code]], p)

-----------------------------------------------------------------------------
(* Automatic matching run repeatedly, with no Beer arriving and no flag
   removed: smart_update_untappd_scrape calls match_untappd while the
   candidate set is non-empty and the enrichment otherwise *)

MatchRun == \E calls \in CallsArgs : MatchUntappd(calls)

NextMatchOnly ==
    \/ MatchRun
    \/ \E calls \in CallsArgs : UpdateBeersFromUntappd(calls)

LiveMatch == InitShared /\ [][NextMatchOnly]_vars /\ WF_vars(MatchRun)

-----------------------------------------------------------------------------
\* C32: stocked_at of a Stock row is stamped only when its quantity becomes
\* nonzero: a row that a pass created with quantity 0 has stocked_at null,
\* and a row whose quantity stayed 0 or stayed nonzero keeps its stocked_at.
C32_StockedAtOnlyWhenBecomingNonzero ==
    last.op = "update_stock_from_vmp" =>
        \A k \in DOMAIN stocks :
            /\ (k \notin DOMAIN pre.stocks /\ stocks[k].quantity = 0)
                  => stocks[k].stocked_at = NULL
            /\ (/\ k \in DOMAIN pre.stocks
                /\ (pre.stocks[k].quantity = 0) = (stocks[k].quantity = 0))
                  => stocks[k].stocked_at = pre.stocks[k].stocked_at

-----------------------------------------------------------------------------
\* C33: in a match_untappd run a delay lies between any two consecutive
\* search queries, also between the successive query variants of one Beer:
\* no query is directly followed by another query.
C33_DelayBetweenQueries ==
    last.op = "match_untappd" =>
        \A i \in 1..(Len(last.events) - 1) :
            ~(last.events[i] = "query" /\ last.events[i + 1] = "query")

-----------------------------------------------------------------------------
\* C38: after every failed automatic match the Beer has match_manually =
\* true and description = "Missing on Untappd.", also a Beer that failed
\* before, was put back by remove_match_manually and fails again.
C38_FailedMatchFlaggedAndDescribed ==
    last.op = "match_untappd" =>
        \A b \in DOMAIN last.outcome :
            ~last.outcome[b].is_matched =>
                /\ beers[b].match_manually
                /\ beers[b].description = "Missing on Untappd."

-----------------------------------------------------------------------------
\* C39: in every reachable state each UntappdCheckin with synced = true has
\* a Tasted row of its user for a Beer whose untpd_id is the check-in's
\* beer id, also after mark_tasted DELETE and after a Beer's untpd_id was
\* changed.
C39_SyncedCheckinHasTasted ==
    \A c \in checkins :
        c.synced =>
            \E t \in tasted :
                /\ t.user = c.user
                /\ t.beer \in DOMAIN beers
                /\ beers[t.beer].untpd_id = c.untpd_beer_id

-----------------------------------------------------------------------------
(* sync_rss_feeds over all active feeds: one pass of Command.handle *)

\* One entry of a parsed feed with what its check-in page gives.
\* checkin_id: the id in the entry's link (NULL for a link without
\* /checkin/<digits>); page_ok: the page was fetched with status 200;
\* beer_id: what _extract_beer_id finds on it (NULL for none)
PageEntry(checkin_id, page_ok, beer_id, rating, pub_date) ==
    [checkin_id |-> checkin_id, page_ok |-> page_ok, beer_id |-> beer_id,
     rating |-> rating, pub_date |-> pub_date]

\* feedparser.parse of the feed of `user`
RssFeed(user, entries) == [user |-> user, ok |-> TRUE, entries |-> entries]

\* parsed.bozo and not parsed.entries
FailedRssFeed(user) == [user |-> user, ok |-> FALSE, entries |-> <<>>]

\* Command._filter_new_entries: the ids of the entries in feed order,
\* without those stored; entry_map keeps the last entry of an id
FilterNewEntries(table, entries) ==
    LET withId == SelectSeq(entries, LAMBDA x : x.checkin_id # NULL)
        existing == {c.untpd_checkin_id : c \in table}
        fresh == SelectSeq(withId, LAMBDA x : x.checkin_id \notin existing)
        entry_map(cid) ==
            withId[CHOOSE i \in DOMAIN withId :
                      /\ withId[i].checkin_id = cid
                      /\ \A j \in DOMAIN withId :
                            j > i => withId[j].checkin_id # cid]
    IN  [i \in DOMAIN fresh |-> entry_map(fresh[i].checkin_id)]

\* the running result of a pass: the UntappdCheckin table, the check-in
\* pages fetched so far, total_imported, and the users whose feed got
\* last_synced stamped
RssPass(table, fetched, imported, stamped) ==
    [checkins |-> table, fetched |-> fetched, imported |-> imported,
     stamped |-> stamped]

\* One iteration of the loop of _process_feed that stores a row also when
\* _scrape_checkin_page returned no beer id
ImportEntry_StoreAnyway(acc, user, entry) ==
    [acc EXCEPT
        !.checkins = SaveCheckin(acc.checkins, user, entry),
        !.fetched = Append(@, [checkin_id |-> entry.checkin_id,
                               stored |-> \E c \in acc.checkins :
                                   c.untpd_checkin_id = entry.checkin_id,
                               imported |-> TRUE]),
        !.imported = @ + 1]

\* One iteration of the loop of _process_feed: _scrape_checkin_page, then
\* _save_checkin when a beer id came back
ImportEntry(acc, user, entry) ==
    LET scraped == entry.page_ok /\ entry.beer_id # NULL IN
    [acc EXCEPT
        !.checkins = IF scraped THEN SaveCheckin(acc.checkins, user, entry)
                     ELSE @,
        !.fetched = Append(@, [checkin_id |-> entry.checkin_id,
                               stored |-> \E c \in acc.checkins :
                                   c.untpd_checkin_id = entry.checkin_id,
                               imported |-> scraped]),
        !.imported = IF scraped THEN @ + 1 ELSE @]

RECURSIVE ImportEntries(_, _, _, _)
ImportEntries(acc, user, entries, i) ==
    IF i > Len(entries) THEN acc
    ELSE ImportEntries(ImportEntry(acc, user, entries[i]), user, entries,
                       i + 1)

\* Command._process_feed
ProcessFeed(acc, feed) ==
    IF ~feed.ok THEN acc
    ELSE LET new_entries == FilterNewEntries(acc.checkins, feed.entries)
             done == ImportEntries(acc, feed.user, new_entries, 1)
         IN  [done EXCEPT !.stamped = IF done.imported > acc.imported
                                      THEN @ \cup {feed.user} ELSE @]

RECURSIVE ProcessFeeds(_, _, _)
ProcessFeeds(acc, feeds, i) ==
    IF i > Len(feeds) THEN acc
    ELSE ProcessFeeds(ProcessFeed(acc, feeds[i]), feeds, i + 1)

eA == PageEntry(9001, TRUE, 101, 4, 1)
eAfail == PageEntry(9001, FALSE, NULL, NULL, 1)
eB == PageEntry(9002, TRUE, 101, 3, 2)
eBnobeer == PageEntry(9002, TRUE, NULL, NULL, 2)
eC == PageEntry(9003, TRUE, 102, NULL, NULL)
eNoId == PageEntry(NULL, TRUE, 101, 4, 1)

\* What the active feeds hold during one pass, in the order of the loop
PassAnswers ==
    {<<>>,
     <<RssFeed("u1", <<eA>>)>>,
     <<RssFeed("u1", <<eAfail, eB>>), RssFeed("u2", <<eC>>)>>,
     <<RssFeed("u1", <<eA, eBnobeer>>), RssFeed("u2", <<eC>>)>>,
     <<RssFeed("u1", <<eA, eB>>), RssFeed("u2", <<eB, eC>>)>>,
     <<RssFeed("u1", <<eA, eA>>), FailedRssFeed("u2")>>,
     <<FailedRssFeed("u1"), RssFeed("u2", <<eNoId, eC>>)>>}

\* Command.handle of sync_rss_feeds without --user: every active feed in
\* turn, then sync_unmatched_checkins; nothing at all without an active
\* feed
SyncRssFeedsPass(feeds) ==
    LET done == ProcessFeeds(RssPass(checkins, <<>>, 0, {}), feeds, 1)
        swept == IF feeds = <<>>
                 THEN [tasted |-> tasted, checkins |-> checkins,
                       synced_count |-> 0, users_affected |-> 0]
                 ELSE SyncUnmatchedCheckins(beers, tasted, done.checkins)
    IN  /\ Cardinality(done.checkins) <= MaxCheckinRows
        /\ checkins' = swept.checkins
        /\ tasted' = swept.tasted
        /\ last' = [op |-> "sync_rss_feeds_pass", feeds |-> feeds,
                    fetched |-> done.fetched, imported |-> done.imported,
                    stamped |-> done.stamped,
                    synced_count |-> swept.synced_count,
                    users_affected |-> swept.users_affected]
        /\ pre' = Snapshot
        /\ UNCHANGED <<now, beers, stocks, wrongs, option, stores,
                     unreleased>>

NextRss ==
    \/ \E feeds \in PassAnswers : SyncRssFeedsPass(feeds)
    \/ \E b \in VmpIds, url \in SharedUrls : EditBeerUrl(b, url)

SpecRss == InitImport /\ [][NextRss]_vars

\* the ids a stored table holds
StoredCheckinIds(table) ==
    {c.untpd_checkin_id : c \in table} \ {NULL}

\* C36: after any sequence of feed passes there is at most one
\* UntappdCheckin per external check-in id; no check-in page is fetched
\* for an id that is stored at that moment, and the rows stored before the
\* pass keep their user, beer id, rating and time.
C36_OneRowPerIdAndNoRefetch ==
    /\ \A c, d \in checkins :
          (c.untpd_checkin_id # NULL
              /\ c.untpd_checkin_id = d.untpd_checkin_id) => c = d
    /\ last.op = "sync_rss_feeds_pass" =>
          /\ \A i \in DOMAIN last.fetched : ~last.fetched[i].stored
          /\ \A c \in pre.checkins :
                \E d \in checkins : [d EXCEPT !.synced = c.synced] = c

-----------------------------------------------------------------------------
\* the entries _filter_new_entries can hand on of the parsed feeds: for each
\* id the last entry of its feed
ListedEntries(feeds) ==
    UNION {{feeds[f].entries[i] : i \in
              {i \in DOMAIN feeds[f].entries :
                  /\ feeds[f].entries[i].checkin_id # NULL
                  /\ \A j \in DOMAIN feeds[f].entries :
                        j > i => feeds[f].entries[j].checkin_id
                                    # feeds[f].entries[i].checkin_id}} :
           f \in {g \in DOMAIN feeds : feeds[g].ok}}

\* the page of the entry gave a beer id
Scraped(entry) == entry.page_ok /\ entry.beer_id # NULL

\* the ids whose page was fetched in the pass without giving a beer id and
\* which are not stored after it
SkippedIds ==
    {last.fetched[i].checkin_id : i \in DOMAIN last.fetched}
        \ StoredCheckinIds(checkins)

\* C37 (state part): after a feed pass, no row was stored for an id unless
\* a listed entry's page gave a beer id, and every listed entry whose page
\* gave a beer id is stored, whatever happened to the other entries and
\* feeds of the pass.
SkippedStoresNothingOthersImported ==
    last.op = "sync_rss_feeds_pass" =>
        /\ StoredCheckinIds(checkins) \ StoredCheckinIds(pre.checkins)
              \subseteq {e.checkin_id :
                            e \in {x \in ListedEntries(last.feeds) :
                                      Scraped(x)}}
        /\ \A e \in ListedEntries(last.feeds) :
              Scraped(e) => e.checkin_id \in StoredCheckinIds(checkins)
        /\ \A i \in DOMAIN last.fetched :
              (~last.fetched[i].imported /\ ~last.fetched[i].stored)
                  => last.fetched[i].checkin_id \in SkippedIds

\* C37 (step part): when the next pass lists a skipped id again, its page
\* is fetched again.
SkippedIsRetried ==
    (last.op = "sync_rss_feeds_pass" /\ last'.op = "sync_rss_feeds_pass")
        => \A id \in SkippedIds :
              (\E e \in ListedEntries(last'.feeds) : e.checkin_id = id)
                  => \E i \in DOMAIN last'.fetched :
                        last'.fetched[i].checkin_id = id

\* C37: in a feed pass an entry whose check-in page fetch fails or yields
\* no beer id is skipped without storing anything, the remaining entries of
\* the feed and the other feeds are still imported, and the skipped entry
\* is attempted again on the next pass.
C37_FailedEntrySkippedAndRetried ==
    [](SkippedStoresNothingOthersImported) /\ [][SkippedIsRetried]_vars

\* a pass skipped an entry whose page gave no beer id, imported an entry
\* fetched after it, and imported from both feeds
C37_Witness ==
    /\ last.op = "sync_rss_feeds_pass"
    /\ SkippedIds # {}
    /\ \E i, j \in DOMAIN last.fetched :
          /\ i < j
          /\ ~last.fetched[i].imported
          /\ last.fetched[j].imported
    /\ Cardinality(last.stamped) = 2
    /\ Cardinality(StoredCheckinIds(checkins)) = 2

-----------------------------------------------------------------------------
(* get_unreleased_beers_from_vmp: the pre-registered products *)

\* What the per-id lookup of a marker gives: _call_api(url)["product"] as
\* xmltodict parses it, every leaf a str or None.  has_price: the record
\* has a "price" element; volume: what float(response["volume"]["value"])
\* returns.
Released(code, name, sub, country, has_price, volume) ==
    [ok |-> TRUE, code |-> code, name |-> name, main_category |-> "Øl",
     main_sub_category |-> sub, main_country |-> country,
     has_price |-> has_price, volume |-> volume,
     product_selection |-> "Basisutvalget", url |-> "/p/x"]

\* the fetch or the parse raised, or the answer has no "product"
FailedLookup == [ok |-> FALSE]

\* Command._update_existing_beer, for a record it does not raise on
UpdateUnreleasedBeer(beer, a, t) ==
    LET self == [beer EXCEPT
            !.vmp_name = a.name,
            !.main_category = a.main_category,
            !.sub_category = IF a.main_sub_category # NONE
                             THEN a.main_sub_category ELSE @,
            !.country = a.main_country,
            !.volume = Quot(a.volume, 100),
            !.product_selection = a.product_selection,
            !.vmp_url = "https://www.vinmonopolet.no" \o a.url,
            !.vmp_updated = t,
            !.active = TRUE]
    IN SaveBeer(beer, self).row

\* Beer.objects.create(**beer_data) of Command._create_new_beer
CreateUnreleasedBeer(a, t) ==
    [BeerDefaults EXCEPT
        !.vmp_name = a.name,
        !.main_category = a.main_category,
        !.country = a.main_country,
        !.volume = Quot(a.volume, 100),
        !.product_selection = a.product_selection,
        !.vmp_url = "https://www.vinmonopolet.no" \o a.url,
        !.vmp_updated = t,
        !.created_at = t]

\* the running result of the loop over the markers
Unreleased(beertable, markers, outcome) ==
    [beers |-> beertable, unreleased |-> markers, outcome |-> outcome]

\* Command._process_product for the marker `id`.  Assigning a country name
\* (a str) to the ForeignKey Beer.country raises ValueError, in
\* _update_existing_beer before the save and in _create_new_beer inside
\* Beer.objects.create; with a "price" element,
\* _calculate_price_per_volume divides the str price by a float and raises
\* TypeError, in _update_existing_beer before the save and in
\* _create_new_beer after Beer.objects.create has stored the row.  Every
\* exception ends in `except Exception: return False, False`.
ProcessUnreleased(acc, id, a, t) ==
    LET failed == [acc EXCEPT !.outcome = Put(@, id, "failed")] IN
    IF ~a.ok \/ a.code \notin DOMAIN VmpIdOf THEN failed
    ELSE LET b == VmpIdOf[a.code] IN
         IF b \in DOMAIN acc.beers
         THEN IF a.main_country # NONE \/ a.has_price THEN failed
              ELSE Unreleased(
                       Put(acc.beers, b,
                           UpdateUnreleasedBeer(acc.beers[b], a, t)),
                       acc.unreleased \ {id},
                       Put(acc.outcome, id, "updated"))
         ELSE IF a.main_country # NONE THEN failed
         ELSE LET created == CreateUnreleasedBeer(a, t) IN
              IF a.has_price
              THEN [failed EXCEPT !.beers = Put(@, b, created)]
              ELSE Unreleased(
                       Put(acc.beers, b,
                           IF a.main_sub_category # NONE
                           THEN SaveBeer(created,
                                    [created EXCEPT !.sub_category =
                                        a.main_sub_category]).row
                           ELSE created),
                       acc.unreleased \ {id},
                       Put(acc.outcome, id, "created"))

\* the loop of Command.handle over VmpNotReleased.objects.all(), in id order
RECURSIVE ProcessAllUnreleased(_, _, _, _)
ProcessAllUnreleased(acc, todo, answers, t) ==
    IF todo = {} THEN acc
    ELSE LET id == CHOOSE x \in todo : \A y \in todo : x <= y IN
         ProcessAllUnreleased(ProcessUnreleased(acc, id, answers[id], t),
                              todo \ {id}, answers, t)

\* what the source can answer for the id of a marker
Lookups(id) ==
    LET code == IF id = 1 THEN "1" ELSE "2" IN
    {FailedLookup,
     Released(code, <<"Lervig", "Ale">>, "Pale ale", NONE, FALSE, 33),
     Released(code, <<"Lervig", "Ale">>, NONE, "Norge", FALSE, 33),
     Released(code, <<"Lervig", "Ale">>, NONE, NONE, TRUE, 50)}

\* Command.handle of get_unreleased_beers_from_vmp
GetUnreleasedBeersFromVmp(configured) ==
    \E answers \in [unreleased -> UNION {Lookups(id) : id \in VmpIds}] :
        /\ \A id \in unreleased : answers[id] \in Lookups(id)
        /\ LET done == IF configured
                       THEN ProcessAllUnreleased(
                                Unreleased(beers, unreleased, <<>>),
                                unreleased, answers, now)
                       ELSE Unreleased(beers, unreleased, <<>>)
           IN  /\ beers' = done.beers
               /\ unreleased' = done.unreleased
               /\ last' = [op |-> "get_unreleased_beers_from_vmp",
                           configured |-> configured, answers |-> answers,
                           before |-> unreleased,
                           outcome |-> done.outcome, at |-> now]
        /\ pre' = Snapshot
        /\ UNCHANGED <<now, stocks, tasted, checkins, wrongs, option, stores>>

\* admin.site.register(VmpNotReleased): an operator adds a marker
RegisterUnreleased(id) ==
    /\ id \notin unreleased
    /\ unreleased' = unreleased \cup {id}
    /\ last' = [op |-> "register_unreleased", id |-> id]
    /\ pre' = Snapshot
    /\ UNCHANGED <<now, beers, stocks, tasted, checkins, wrongs, option,
                   stores>>

NextUnreleased ==
    \/ Tick
    \/ \E id \in VmpIds : RegisterUnreleased(id)
    \/ \E configured \in BOOLEAN : GetUnreleasedBeersFromVmp(configured)

SpecUnreleased == InitMatch /\ [][NextUnreleased]_vars

\* C34: after get_unreleased_beers_from_vmp ran, a marker is deleted
\* exactly when its lookup succeeded and a Beer with that vmp_id was
\* created or updated; a marker whose lookup failed remains, and no Beer
\* was created or changed for it.
C34_MarkerDeletedIffBeerWritten ==
    (last.op = "get_unreleased_beers_from_vmp" /\ last.configured) =>
        \A id \in last.before :
            LET a == last.answers[id]
                created == id \notin DOMAIN pre.beers /\ id \in DOMAIN beers
                updated == id \in DOMAIN pre.beers
                              /\ last.outcome[id] = "updated"
            IN  /\ (id \notin unreleased) <=> (a.ok /\ (created \/ updated))
                /\ ~a.ok =>
                      /\ id \in unreleased
                      /\ (id \in DOMAIN beers) = (id \in DOMAIN pre.beers)
                      /\ id \in DOMAIN beers => beers[id] = pre.beers[id]

-----------------------------------------------------------------------------
(* update_details_from_vmp: the product details *)

\* a color text longer than CharField(max_length=100) holds
LongColor == "longer than 100 characters"

\* Command._parse_sugar_value of the sugar texts the source sends:
\* float(s.replace("<", "").replace(",", ".").split(" ")[-1]); a text
\* outside the table raises ValueError
SugarOf ==
    [s \in {"4,5", "< 3"} |-> IF s = "4,5" THEN Quot(9, 2) ELSE Quot(3, 1)]

\* What the detail endpoint answers.  raised: the request or .json() raised;
\* status: the HTTP status, which _call_api does not look at (an error
\* status comes with a JSON error object without product keys); color,
\* sugar: the keys of the product object, AbsentText for a missing key
DetailAnswer(raised, status, color, sugar) ==
    [raised |-> raised, status |-> status, color |-> color, sugar |-> sugar]

DetailAnswers ==
    {DetailAnswer(TRUE, 0, AbsentText, AbsentText),
     DetailAnswer(FALSE, 404, AbsentText, AbsentText),
     DetailAnswer(FALSE, 200, "Gyllen", "4,5"),
     DetailAnswer(FALSE, 200, "Gyllen", "ukjent"),
     DetailAnswer(FALSE, 200, LongColor, AbsentText),
     DetailAnswer(FALSE, 200, AbsentText, "< 3")}

\* Command._update_product_details: the row in storage afterwards and the
\* returned flag.  The attributes are set on the instance, the one save is
\* the last statement, and every exception (of the request, of
\* _parse_sugar_value, of the save that rejects a value) returns False.
UpdateProductDetails(product, a, t) ==
    IF a.raised THEN [row |-> product, ok |-> FALSE]
    ELSE IF a.sugar # AbsentText /\ a.sugar \notin DOMAIN SugarOf
    THEN [row |-> product, ok |-> FALSE]
    ELSE IF a.color = LongColor
    THEN [row |-> product, ok |-> FALSE]
    ELSE [row |-> SaveBeer(product,
                     [product EXCEPT
                         !.color = IF a.color # AbsentText THEN a.color
                                   ELSE @,
                         !.sugar = IF a.sugar # AbsentText
                                   THEN SugarOf[a.sugar] ELSE @,
                         !.vmp_details_fetched = t]).row,
          ok |-> TRUE]

\* Beer.objects.filter(active=True, vmp_details_fetched=None)
ProductsWithoutDetails(table) ==
    {b \in DOMAIN table :
        table[b].active /\ table[b].vmp_details_fetched = NULL}

\* Command.handle of update_details_from_vmp: the slice [:calls] of the
\* unordered queryset is some set of min(calls, count) candidates
UpdateDetailsFromVmp(configured, calls) ==
    \E picked \in SUBSET ProductsWithoutDetails(beers) :
    \E answers \in [picked -> DetailAnswers] :
        /\ Cardinality(picked) =
              IF configured
              THEN Min(calls, Cardinality(ProductsWithoutDetails(beers)))
              ELSE 0
        /\ beers' = [b \in DOMAIN beers |->
                        IF b \in picked
                        THEN UpdateProductDetails(beers[b], answers[b],
                                                  now).row
                        ELSE beers[b]]
        /\ last' = [op |-> "update_details_from_vmp",
                    configured |-> configured, calls |-> calls,
                    answers |-> answers,
                    updated |-> {b \in picked :
                        UpdateProductDetails(beers[b], answers[b], now).ok},
                    at |-> now]
        /\ pre' = Snapshot
        /\ UNCHANGED <<now, stocks, tasted, checkins, wrongs, option, stores,
                       unreleased>>

NextDetails ==
    \/ Tick
    \/ \E configured \in BOOLEAN, calls \in CallsArgs :
          UpdateDetailsFromVmp(configured, calls)

SpecDetails == InitShared /\ [][NextDetails]_vars

\* the detail fetch succeeded: no exception and status 200
FetchSucceeded(a) == ~a.raised /\ a.status = 200

\* C35: update_details_from_vmp stamps vmp_details_fetched on a Beer only
\* when the detail fetch and the save succeeded; when it failed, the row of
\* the Beer is unchanged, vmp_details_fetched is null and the Beer is still
\* selected by the filter of the next invocation.
C35_StampedOnlyOnSuccess ==
    last.op = "update_details_from_vmp" =>
        \A b \in DOMAIN last.answers :
            LET succeeded == FetchSucceeded(last.answers[b])
                                /\ b \in last.updated
            IN  /\ beers[b].vmp_details_fetched # NULL => succeeded
                /\ ~succeeded =>
                      /\ beers[b] = pre.beers[b]
                      /\ beers[b].vmp_details_fetched = NULL
                      /\ b \in ProductsWithoutDetails(beers)

=============================================================================
